---- MODULE Spec2Model ----
(***************************************************************************)
(* Model of the vulnerability report partitioning and aggregation pipeline *)
(* (utilities/StandardReportProcessingSteps.py, CommonFunctions.py,        *)
(* BasicProcessingSteps.py).                                               *)
(*                                                                         *)
(* A table (pandas DataFrame) is a sequence of rows; a row is a record of  *)
(* the columns the pipeline reads:                                         *)
(*   loc = 'Asset Location'        os  = 'Asset OS Name'                   *)
(*   ver = 'Asset OS Version'      vid = 'Vulnerability ID'                *)
(*   sev = 'Vulnerability CVSSv3 Severity'                                 *)
(* Python strings are TLA+ strings; `x in s` and Series.str.contains(x)    *)
(* (the patterns used hold no regex metacharacter) are substring tests.    *)
(*                                                                         *)
(* Specifications:                                                         *)
(*   Spec      a run of up to MaxFiles calls of                            *)
(*             run_standard_report_process_steps on shared accumulators    *)
(*   SpecCall  one such call on fresh accumulators, tables up to MaxRows   *)
(*   SpecSplit split_dataframe applied to drawn tables and row limits      *)
(*   SpecCols  update_is_cisa_kev, then update_cisa_kev_column_position,   *)
(*             on drawn column lists                                       *)
(***************************************************************************)
EXTENDS Integers, Sequences, FiniteSets, TLC

VARIABLES
    pc,               \* position inside run_standard_report_process_steps
    filename,         \* its argument `filename`
    new_file,         \* its local `new_file`
    data,             \* its local `data`
    region,           \* its local `region` (None when unset)
    region_to_exclude,\* its local `region_to_exclude` (None when unset)
    idx,              \* loop index of lines 53-59 (0-based)
    ret,              \* what the last call returned
    unknown_regions,  \* the caller's unknown-region ledger (a list object)
    count,            \* the severity-count ledger (a list object)
    all_workstations, \* the caller's all_workstations DataFrame
    files,            \* report files on disk: path -> list of (sheet, table)
    nfiles,           \* number of calls made so far in this run
    input_rows,       \* len(data) of the table handed to the last call
    last_region,      \* the last process_region call: its inputs and locals
    last_final,       \* the last process_final_file call: its locals at exit
    fn                \* a function of the library applied to drawn inputs

vars == <<pc, filename, new_file, data, region, region_to_exclude, idx, ret,
          unknown_regions, count, all_workstations, files, nfiles,
          input_rows, last_region, last_final, fn>>

\* ------------------------------------------------------------------ bounds
MaxRows == 3        \* longest input table of a single call
MaxFiles == 2       \* source files processed in one run
MaxSplitRows == 4   \* longest table handed to split_dataframe
MaxSheetRows == 3   \* largest max_sheet_rows handed to split_dataframe
MaxCols == 4        \* most columns of a table whose columns are re-arranged
MaxScore == 1100    \* largest score handed to score_to_severity, in hundredths
MaxMergeRows == 2   \* longest table handed to merge_severity_scores
MaxOsRows == 2      \* longest table handed to process_os on its own
MaxRawFiles == 3    \* most files in the raw-data folder of a legacy run
MaxSinkRows == 3    \* longest table handed to the spreadsheet writer
MaxChunkSize == 2   \* largest chunk_size and max_sheet_rows of a written table

\* ------------------------------------------------------------- Python bits
None == "<None>"

Min(a, b) == IF a < b THEN a ELSE b

\* `sub in s` / Series.str.contains(sub)
Contains(s, sub) ==
    \E i \in 1..(Len(s) - Len(sub) + 1) : SubSeq(s, i, i + Len(sub) - 1) = sub

\* Series.str.startswith(sub)
StartsWith(s, sub) ==
    Len(sub) <= Len(s) /\ SubSeq(s, 1, Len(sub)) = sub

\* DataFrame.drop_duplicates(): the first of each run of equal rows is kept
RECURSIVE drop_duplicates(_)
drop_duplicates(t) ==
    IF t = <<>> THEN <<>>
    ELSE LET init == drop_duplicates(SubSeq(t, 1, Len(t) - 1))
             last == t[Len(t)]
         IN  IF \E k \in 1..Len(init) : init[k] = last THEN init
             ELSE Append(init, last)

\* Series.value_counts().get(label, 0)
value_counts_get(t, label) ==
    Cardinality({k \in 1..Len(t) : t[k].sev = label})

\* --------------------------------------------------------------- the inputs
\* Representative finding rows.
Rows == {
    [loc |-> "AMER", os |-> "Microsoft Windows 10", ver |-> "21H2",
     vid |-> "msft-cve-1", sev |-> "Critical"],
    [loc |-> "AMER WHQ", os |-> "Linux", ver |-> "",
     vid |-> "ssh-weak", sev |-> "High"],
    [loc |-> "WHQ", os |-> "Microsoft Windows 11", ver |-> "22H2",
     vid |-> "tls-old", sev |-> "Low"],
    [loc |-> "APAC CN", os |-> "Cisco IOS ROUTER", ver |-> "15",
     vid |-> "snmp-v1", sev |-> "Critical"],
    [loc |-> "EMEA", os |-> "Microsoft Windows Server 2019", ver |-> "1809",
     vid |-> "mssql-obsolete-1", sev |-> "High"] }

\* Tables handed to one call that is looked at on its own.
Tables == UNION {[1..n -> Rows] : n \in 0..MaxRows}

\* Tables of the source files of a whole run: empty, or one finding.
RunTables == {<<>>} \cup {<<r>> : r \in Rows}

\* Declared file names handed in by the orchestrator.
Filenames == {"AMER - OS", "EMEA - Network", "APAC - Applications",
              "UC", "Externally Facing - HK VoIP", "UC - Phones"}

\* today_date_str, e.g. datetime.now().strftime("-%Y-%m-%d")
today_date_str == "-2024-01-01"

\* the workstation test without the version
workstation_criteria_any_version(r) ==
    Contains(r.os, "Microsoft Windows 1")

\* ---------------------------------------------------- the category splitter
\* process_os: data is split between workstations and servers
workstation_criteria(r) ==
    Contains(r.os, "Microsoft Windows 1") /\ StartsWith(r.ver, "2")

\* the server test made to leave out what the workstation test takes
server_criteria_not_workstation(r) ==
    /\ \/ ~ ( \/ Contains(r.os, "Microsoft Windows")
              \/ Contains(r.os, "ROUTER")
              \/ Contains(r.os, "RT")
              \/ Contains(r.os, "NETWORK") )
       \/ Contains(r.os, "Microsoft Windows Server")
    /\ ~ (Contains(r.os, "Microsoft Windows 1") /\ StartsWith(r.ver, "2"))

server_criteria(r) ==
    \/ ~ ( \/ Contains(r.os, "Microsoft Windows")
           \/ Contains(r.os, "ROUTER")
           \/ Contains(r.os, "RT")
           \/ Contains(r.os, "NETWORK") )
    \/ Contains(r.os, "Microsoft Windows Server")

process_os(t) ==
    [new_file |-> <<"Workstations", "Servers">>,
     data     |-> <<SelectSeq(t, workstation_criteria),
                    SelectSeq(t, server_criteria)>>]

\* process_network: no filtering is applied
process_network(t) ==
    [new_file |-> <<"Network">>, data |-> <<t>>]

\* process_app: rows with a denylisted vulnerability id are excluded
app_excluded(r) ==
    \/ Contains(r.vid, "msft-cve")
    \/ Contains(r.vid, "mssql-obsolete")
    \/ Contains(r.vid, "windows-10-obsolete")
    \/ Contains(r.vid, "snmp")

app_kept(r) == ~ app_excluded(r)

process_app(t) ==
    [new_file |-> <<"Applications">>, data |-> <<SelectSeq(t, app_kept)>>]

OsFiles == {"AMER - OS", "EMEA - OS", "APAC - OS"}
NetworkFiles == {"AMER - Network", "EMEA - Network", "APAC - Network"}
ApplicationsFiles ==
    {"AMER - Applications", "EMEA - Applications", "APAC - Applications"}
PassThroughFiles ==
    {"UC", "CGI - OS", "CGI - Applications", "DXC - OS", "DXC - Applications",
     "DXC", "Synology", "Externally Facing - HK VoIP", "DXC - DMZ"}

\* the dispatch done by substring instead of tuple membership
RecognizedFiles_substring ==
    {f \in Filenames :
        \E k \in OsFiles \cup NetworkFiles \cup ApplicationsFiles
                  \cup PassThroughFiles : Contains(f, k)}

RecognizedFiles ==
    OsFiles \cup NetworkFiles \cup ApplicationsFiles \cup PassThroughFiles

\* lines 16-29: the dispatch on the declared file name
category_split(f, t) ==
    IF f \in OsFiles THEN process_os(t)
    ELSE IF f \in NetworkFiles THEN process_network(t)
    ELSE IF f \in ApplicationsFiles THEN process_app(t)
    ELSE [new_file |-> <<f>>, data |-> <<t>>]

\* lines 31-46: region and region_to_exclude from the declared file name;
\* kind tells the branch taken
region_of(f) ==
    IF Contains(f, "AMER")
      THEN [kind |-> "region", region |-> "AMER", region_to_exclude |-> "WHQ"]
    ELSE IF Contains(f, "APAC")
      THEN [kind |-> "region", region |-> "APAC", region_to_exclude |-> "CN"]
    ELSE IF Contains(f, "EMEA")
      THEN [kind |-> "region", region |-> "EMEA", region_to_exclude |-> None]
    ELSE IF \/ Contains(f, "UC") \/ Contains(f, "CGI") \/ Contains(f, "DXC")
            \/ Contains(f, "Synology") \/ Contains(f, "VoIP")
      THEN [kind |-> "wrap", region |-> None, region_to_exclude |-> None]
    ELSE [kind |-> "return", region |-> None, region_to_exclude |-> None]

\* --------------------------------------------------- the region partitioner
category_mapping_keys == {"Workstations", "Servers", "Network", "Applications"}

\* the mapping with 'Servers' sent to the Network slot
category_mapping_servers_shifted(category) ==
    CASE category = "Workstations" -> 0
      [] category = "Servers"      -> 1
      [] category = "Network"      -> 1
      [] category = "Applications" -> 2

\* category_mapping[category]: the 0-based slot of the unknown-region ledger
category_mapping(category) ==
    CASE category = "Workstations" -> 0
      [] category = "Servers"      -> 0
      [] category = "Network"      -> 1
      [] category = "Applications" -> 2

\* ledger_add with the result of pd.concat thrown away
ledger_add_concat_dropped(ledger, target_index, other_data) ==
    LET slot == ledger[target_index + 1]
    IN  [ledger EXCEPT ![target_index + 1] =
            IF Len(slot) = 1 THEN Append(slot, other_data) ELSE slot]

\* ledger_add with the new rows put in front of the slot's table
ledger_add_prepended(ledger, target_index, other_data) ==
    LET slot == ledger[target_index + 1]
    IN  [ledger EXCEPT ![target_index + 1] =
            IF Len(slot) = 1 THEN Append(slot, other_data)
            ELSE <<slot[1], other_data \o slot[2]>>]

\* lines 159-162: the slot holds [label] or [label, table]
ledger_add(ledger, target_index, other_data) ==
    LET slot == ledger[target_index + 1]
    IN  [ledger EXCEPT ![target_index + 1] =
            IF Len(slot) = 1 THEN Append(slot, other_data)
            ELSE <<slot[1], slot[2] \o other_data>>]

\* process_region with the excluded rows left in the region table
process_region_exclude_kept(t, category, reg, ledger, excl) ==
    LET valid_category == category \in category_mapping_keys
        region_condition(r) == Contains(r.loc, reg)
        exclude_condition(r) == Contains(r.loc, excl)
        exclude_data == IF excl # None THEN SelectSeq(t, exclude_condition)
                        ELSE <<>>
        region_data == SelectSeq(t, region_condition)
        not_region(r) == ~ region_condition(r)
        other_data == SelectSeq(t, not_region)
    IN  [new_file |-> IF excl # None
                        THEN <<reg \o "-" \o category, excl \o "-" \o category>>
                        ELSE <<reg \o "-" \o category>>,
         data |-> IF excl # None THEN <<region_data, exclude_data>>
                  ELSE <<region_data>>,
         unknown_regions |->
             IF valid_category
               THEN ledger_add(ledger, category_mapping(category), other_data)
               ELSE ledger]

process_region(t, category, reg, ledger, excl) ==
    LET valid_category == category \in category_mapping_keys
        region_condition(r) == Contains(r.loc, reg)
        exclude_condition(r) == Contains(r.loc, excl)
        region_not_excluded(r) == region_condition(r) /\ ~ exclude_condition(r)
        exclude_data == IF excl # None THEN SelectSeq(t, exclude_condition)
                        ELSE <<>>
        region_data == IF excl # None THEN SelectSeq(t, region_not_excluded)
                       ELSE SelectSeq(t, region_condition)
        not_region(r) == ~ region_condition(r)
        other_data == SelectSeq(t, not_region)
    IN  [new_file |-> IF excl # None
                        THEN <<reg \o "-" \o category, excl \o "-" \o category>>
                        ELSE <<reg \o "-" \o category>>,
         data |-> IF excl # None THEN <<region_data, exclude_data>>
                  ELSE <<region_data>>,
         unknown_regions |->
             IF valid_category
               THEN ledger_add(ledger, category_mapping(category), other_data)
               ELSE ledger]

\* ------------------------------------------------- the dedup & tally recorder
RECURSIVE Flatten(_)
Flatten(ss) == IF ss = <<>> THEN <<>> ELSE Head(ss) \o Flatten(Tail(ss))

\* the (i, j) pairs of the nested loops of lines 173-174, in loop order
Leaves(d) ==
    Flatten([i \in 1..Len(d) |-> [j \in 1..Len(d[i]) |-> <<i, j>>]])

\* skip_count without its last clause
skip_count_no_whq(name) ==
    \/ Contains(name, "UC") \/ Contains(name, "CGI") \/ Contains(name, "DXC")
    \/ Contains(name, "Synology")

\* lines 182-184: "we don't need count data for secondary files"
skip_count(name) ==
    \/ Contains(name, "UC") \/ Contains(name, "CGI") \/ Contains(name, "DXC")
    \/ Contains(name, "Synology") \/ Contains(name, "WHQ-Servers")

\* count_entry with the 'Critical' lookup pasted into high_count
count_entry_high_pasted(name, dedup) ==
    <<name, value_counts_get(dedup, "Critical"),
      value_counts_get(dedup, "Critical"), Len(dedup)>>

\* line 193: the entry appended for one leaf table
count_entry(name, dedup) ==
    <<name, value_counts_get(dedup, "Critical"),
      value_counts_get(dedup, "High"), Len(dedup)>>

\* the table left in data[i][j] when the loop body ends
recorded_table(name, t) ==
    IF skip_count(name) THEN t ELSE drop_duplicates(t)

process_and_record_data(names, d, cnt) ==
    LET counted(ij) == ~ skip_count(names[ij[1]][ij[2]])
        todo == SelectSeq(Leaves(d), counted)
    IN  [data |-> [i \in 1..Len(d) |->
                     [j \in 1..Len(d[i]) |->
                        recorded_table(names[i][j], d[i][j])]],
         count |-> cnt \o
                   [k \in 1..Len(todo) |->
                      count_entry(names[todo[k][1]][todo[k][2]],
                                  drop_duplicates(d[todo[k][1]][todo[k][2]]))]]

\* ------------------------------------------------------- the report namer
\* the dict `categories`, in insertion order
categories ==
    << <<"Workstations", "Operating Systems - ">>,
       <<"Servers", "Operating Systems - ">>,
       <<"CGI - Applications", "CGI - Applications - Weekly Report">>,
       <<"Network", "Network - ">>,
       <<"UC", "UC - Weekly Report">>,
       <<"CGI - OS", "CGI - OS - Weekly Report">>,
       <<"DXC - OS", "DXC - OS - Weekly Report">>,
       <<"DXC - Applications", "DXC - Applications - Weekly Report">>,
       <<"DXC - DMZ", "DXC - DMZ">>,
       <<"DXC", "DXC - Weekly Report">>,
       <<"Synology", "Synology - Weekly Report">>,
       <<"VoIP", "Externally Facing - HK VoIP">> >>

\* region_prefix with EMEA filed under the AMER label
region_prefix_emea_as_amer ==
    << <<"AMER", "AMER and WHQ">>,
       <<"WHQ", "AMER and WHQ">>,
       <<"APAC", "APAC and CN">>,
       <<"CN", "APAC and CN">>,
       <<"EMEA", "AMER and WHQ">> >>

\* the dict `region_prefix`, in insertion order
region_prefix ==
    << <<"AMER", "AMER and WHQ">>,
       <<"WHQ", "AMER and WHQ">>,
       <<"APAC", "APAC and CN">>,
       <<"CN", "APAC and CN">>,
       <<"EMEA", "EMEA">> >>

\* the last matching key taken in place of the first
first_match_last(d, name) ==
    LET hits == {k \in 1..Len(d) : Contains(name, d[k][1])}
    IN  IF hits = {} THEN ""
        ELSE d[CHOOSE k \in hits : \A h \in hits : k >= h][2]

\* d.get(next((k for k in d if k in name), None), '')
first_match(d, name) ==
    LET hits == {k \in 1..Len(d) : Contains(name, d[k][1])}
    IN  IF hits = {} THEN ""
        ELSE d[CHOOSE k \in hits : \A h \in hits : k <= h][2]

\* lines 229-240: the report file name, from new_file[0][0] only
report_filename(names) ==
    LET name == names[1][1]
        prefix == IF /\ Contains(name, "Applications")
                     /\ ~ Contains(name, "CGI")
                     /\ ~ Contains(name, "DXC")
                    THEN "Applications - "
                    ELSE first_match(categories, name)
    IN  prefix \o first_match(region_prefix, name)

excel_filename_of(names) ==
    report_filename(names) \o today_date_str \o ".xlsx"

\* lines 248-262: the sheets handed to the writer, one per non-empty table
sheets_written(names, d) ==
    LET non_empty(ij) == Len(d[ij[1]][ij[2]]) > 0
        todo == SelectSeq(Leaves(d), non_empty)
    IN  [k \in 1..Len(todo) |->
            <<names[todo[k][1]][todo[k][2]], d[todo[k][1]][todo[k][2]]>>]

\* lines 255-260: the value of the parameter all_workstations when the
\* function ends (the parameter is rebound, the caller's object is not touched)
RECURSIVE workstations_collected(_, _)
workstations_collected(sheets, acc) ==
    IF sheets = <<>> THEN acc
    ELSE workstations_collected(Tail(sheets),
            IF Contains(Head(sheets)[1], "Workstations")
              THEN (IF acc = <<>> THEN Head(sheets)[2]
                    ELSE acc \o Head(sheets)[2])
              ELSE acc)

process_final_file(names, d, all_ws) ==
    [excel_filename |-> excel_filename_of(names),
     sheets |-> sheets_written(names, d),
     all_workstations |-> workstations_collected(sheets_written(names, d), all_ws)]

\* the file system after the writer of `path` is closed with `sheets`
write_file(fs, path, sheets) ==
    [p \in DOMAIN fs \cup {path} |-> IF p = path THEN sheets ELSE fs[p]]

\* ------------------------------------------------------------ the pipeline
NoRegionCall ==
    [called |-> FALSE, data |-> <<>>, category |-> "", region |-> "",
     region_to_exclude |-> None, before |-> <<>>,
     out_names |-> <<>>, out_data |-> <<>>]

NoFinalCall ==
    [called |-> FALSE, excel_filename |-> "", sheets |-> <<>>,
     all_workstations |-> <<>>]

NoFn == [op |-> "none"]

\* The orchestrator's accumulators at the start of a run.
PipelineInit ==
    /\ pc = "idle"
    /\ filename = ""
    /\ new_file = <<>>
    /\ data = <<>>
    /\ region = None
    /\ region_to_exclude = None
    /\ idx = 0
    /\ ret = "no call"
    /\ unknown_regions = << <<"OS">>, <<"Network">>, <<"Applications">> >>
    /\ count = <<>>
    /\ all_workstations = <<>>
    /\ files = [p \in {} |-> <<>>]
    /\ nfiles = 0
    /\ input_rows = 0
    /\ last_region = NoRegionCall
    /\ last_final = NoFinalCall

Init == PipelineInit /\ fn = NoFn

\* lines 27-29: the declared file name is no recognized category
NotRecognized(f, t) ==
    /\ pc = "idle"
    /\ nfiles < MaxFiles
    /\ f \notin RecognizedFiles
    /\ filename' = f
    /\ nfiles' = nfiles + 1
    /\ input_rows' = Len(t)
    /\ ret' = "(None, None)"
    /\ UNCHANGED <<pc, new_file, data, region, region_to_exclude, idx,
                   unknown_regions, count, all_workstations, files,
                   last_region, last_final, fn>>

\* lines 16-46: category split, then the choice of region
CategorySplit(f, t) ==
    /\ pc = "idle"
    /\ nfiles < MaxFiles
    /\ f \in RecognizedFiles
    /\ filename' = f
    /\ nfiles' = nfiles + 1
    /\ input_rows' = Len(t)
    /\ LET cs == category_split(f, t)
           rg == region_of(f)
       IN  /\ region' = rg.region
           /\ region_to_exclude' = rg.region_to_exclude
           /\ idx' = 0
           /\ IF rg.kind = "region"
                THEN /\ new_file' = cs.new_file
                     /\ data' = cs.data
                     /\ pc' = "region"
                     /\ ret' = "running"
              ELSE IF rg.kind = "wrap"
                THEN /\ new_file' = <<cs.new_file>>
                     /\ data' = <<cs.data>>
                     /\ pc' = "record"
                     /\ ret' = "running"
              ELSE   /\ new_file' = cs.new_file
                     /\ data' = cs.data
                     /\ pc' = "idle"
                     /\ ret' = "None"
    /\ UNCHANGED <<unknown_regions, count, all_workstations, files,
                   last_region, last_final, fn>>

\* lines 53-59: one iteration of the loop over the category tables
ProcessRegion ==
    /\ pc = "region"
    /\ idx < Len(data)
    /\ LET r == process_region(data[idx + 1], new_file[idx + 1], region,
                               unknown_regions, region_to_exclude)
       IN  /\ new_file' = [new_file EXCEPT ![idx + 1] = r.new_file]
           /\ data' = [data EXCEPT ![idx + 1] = r.data]
           /\ unknown_regions' = r.unknown_regions
           /\ last_region' =
                [called |-> TRUE, data |-> data[idx + 1],
                 category |-> new_file[idx + 1], region |-> region,
                 region_to_exclude |-> region_to_exclude,
                 before |-> unknown_regions,
                 out_names |-> r.new_file, out_data |-> r.data]
    /\ idx' = idx + 1
    /\ pc' = IF idx + 1 = Len(data) THEN "record" ELSE "region"
    /\ UNCHANGED <<filename, region, region_to_exclude, ret, count,
                   all_workstations, files, nfiles, input_rows, last_final,
                   fn>>

\* line 61
ProcessAndRecordData ==
    /\ pc = "record"
    /\ LET r == process_and_record_data(new_file, data, count)
       IN  /\ data' = r.data
           /\ count' = r.count
    /\ pc' = "final"
    /\ UNCHANGED <<filename, new_file, region, region_to_exclude, idx, ret,
                   unknown_regions, all_workstations, files, nfiles,
                   input_rows, last_region, last_final, fn>>

\* the write step made to tally the tables once more
ProcessFinalFile_tally_at_write(empty_workbook_written) ==
    /\ pc = "final"
    /\ LET r == process_final_file(new_file, data, all_workstations)
       IN  /\ last_final' = [called |-> TRUE,
                             excel_filename |-> r.excel_filename,
                             sheets |-> r.sheets,
                             all_workstations |-> r.all_workstations]
           /\ files' = IF r.sheets # <<>> \/ empty_workbook_written
                         THEN write_file(files, r.excel_filename, r.sheets)
                         ELSE files
    /\ count' = process_and_record_data(new_file, data, count).count
    /\ pc' = "idle"
    /\ ret' = "(unknown_regions, count)"
    /\ UNCHANGED <<filename, new_file, data, region, region_to_exclude, idx,
                   unknown_regions, all_workstations, nfiles,
                   input_rows, last_region, fn>>

\* lines 63-65: process_final_file, then the return of the two ledgers.
\* A writer closed without any sheet leaves, depending on the Excel engine
\* installed, either no usable file or a workbook without data.
ProcessFinalFile(empty_workbook_written) ==
    /\ pc = "final"
    /\ LET r == process_final_file(new_file, data, all_workstations)
       IN  /\ last_final' = [called |-> TRUE,
                             excel_filename |-> r.excel_filename,
                             sheets |-> r.sheets,
                             all_workstations |-> r.all_workstations]
           /\ files' = IF r.sheets # <<>> \/ empty_workbook_written
                         THEN write_file(files, r.excel_filename, r.sheets)
                         ELSE files
    /\ pc' = "idle"
    /\ ret' = "(unknown_regions, count)"
    /\ UNCHANGED <<filename, new_file, data, region, region_to_exclude, idx,
                   unknown_regions, count, all_workstations, nfiles,
                   input_rows, last_region, fn>>

\* A run: up to MaxFiles source files, one call after the other.
Next ==
    \/ \E f \in Filenames, t \in RunTables : NotRecognized(f, t)
    \/ \E f \in Filenames, t \in RunTables : CategorySplit(f, t)
    \/ ProcessRegion
    \/ ProcessAndRecordData
    \/ \E b \in BOOLEAN : ProcessFinalFile(b)

Spec == Init /\ [][Next]_vars

\* One call on fresh accumulators, with a table of up to MaxRows rows.
FirstNotRecognized(f, t) == nfiles = 0 /\ NotRecognized(f, t)

FirstCategorySplit(f, t) == nfiles = 0 /\ CategorySplit(f, t)

NextCall ==
    \/ \E f \in Filenames, t \in Tables : FirstNotRecognized(f, t)
    \/ \E f \in Filenames, t \in Tables : FirstCategorySplit(f, t)
    \/ ProcessRegion
    \/ ProcessAndRecordData
    \/ \E b \in BOOLEAN : ProcessFinalFile(b)

SpecCall == Init /\ [][NextCall]_vars

\* --------------------------------------------------------- the sheet writer
\* str(n) for n >= 0
RECURSIVE str(_)
str(n) ==
    IF n < 10 THEN SubSeq("0123456789", n + 1, n + 1)
    ELSE str(n \div 10) \o SubSeq("0123456789", (n % 10) + 1, (n % 10) + 1)

\* list(range(start, stop, step)) for step >= 1
RECURSIVE range(_, _, _)
range(start, stop, step) ==
    IF start >= stop THEN <<>>
    ELSE <<start>> \o range(start + step, stop, step)

\* the slice with its end one row short
chunk_at_short(t, i, max_sheet_rows) ==
    SubSeq(t, i + 1, Min(i + max_sheet_rows - 1, Len(t)))

\* data[i:i + max_sheet_rows]
chunk_at(t, i, max_sheet_rows) ==
    SubSeq(t, i + 1, Min(i + max_sheet_rows, Len(t)))

\* every chunk numbered, the first one included
sheet_name_at_numbered(i) == "Data" \o str(i + 1)

\* "Data" + str(i + 1) if i else "Data"
sheet_name_at(i) == IF i # 0 THEN "Data" \o str(i + 1) ELSE "Data"

split_dataframe(t, max_sheet_rows) ==
    LET starts == range(0, Len(t), max_sheet_rows)
        chunked_df == [k \in 1..Len(starts) |->
                          chunk_at(t, starts[k], max_sheet_rows)]
    IN  [k \in 1..Len(chunked_df) |-> <<sheet_name_at(k - 1), chunked_df[k]>>]

\* Tables handed to split_dataframe: two distinguishable rows, any order.
SplitRows == {r \in Rows : r.loc \in {"AMER", "WHQ"}}

SplitTables == UNION {[1..n -> SplitRows] : n \in 0..MaxSplitRows}

InitSplit ==
    /\ PipelineInit
    /\ fn \in [op : {"split_dataframe"}, pc : {"call"}, data : SplitTables,
               max_sheet_rows : 1..MaxSheetRows, sheet_list : {<<>>}]

SplitDataframe ==
    /\ fn.op = "split_dataframe"
    /\ fn.pc = "call"
    /\ fn' = [fn EXCEPT !.pc = "done",
                        !.sheet_list = split_dataframe(fn.data,
                                                       fn.max_sheet_rows)]
    /\ UNCHANGED <<pc, filename, new_file, data, region, region_to_exclude,
                   idx, ret, unknown_regions, count, all_workstations, files,
                   nfiles, input_rows, last_region, last_final>>

NextSplit == SplitDataframe

SpecSplit == InitSplit /\ [][NextSplit]_vars

\* ------------------------------------------------- the CISA KEV enrichment
\* A table is here its list of column names (data.columns.tolist()).
Elems(q) == {q[k] : k \in 1..Len(q)}

\* list.remove(x) for x in the list: the first occurrence goes
list_remove(q, x) ==
    LET k == CHOOSE i \in 1..Len(q) : q[i] = x /\ \A h \in 1..(i - 1) : q[h] # x
    IN  SubSeq(q, 1, k - 1) \o SubSeq(q, k + 1, Len(q))

\* list.insert(i, x) for i >= 0: an index past the end appends
list_insert(q, i, x) ==
    LET k == Min(i, Len(q))
    IN  SubSeq(q, 1, k) \o <<x>> \o SubSeq(q, k + 1, Len(q))

\* list.index(x) for x in the list, 0-based
list_index(q, x) ==
    (CHOOSE i \in 1..Len(q) : q[i] = x /\ \A h \in 1..(i - 1) : q[h] # x) - 1

cisa_columns ==
    <<"Vulnerability CVSS Score", "Vulnerability CVSSv3 Severity", "CisaKev">>

\* lines 41-42: `for col in cisa_columns: df_columns.remove(col)`;
\* remove raises ValueError for a name that is not in the list
RECURSIVE remove_columns(_, _)
remove_columns(q, names) ==
    IF names = <<>> THEN [raised |-> "", columns |-> q]
    ELSE IF Head(names) \notin Elems(q)
      THEN [raised |-> "ValueError", columns |-> q]
    ELSE remove_columns(list_remove(q, Head(names)), Tail(names))

\* lines 44-45: `for col in reversed(cisa_columns): df_columns.insert(pos, col)`
RECURSIVE insert_columns(_, _, _)
insert_columns(q, pos, names) ==
    IF names = <<>> THEN q
    ELSE insert_columns(list_insert(q, pos, names[Len(names)]), pos,
                        SubSeq(names, 1, Len(names) - 1))

\* the columns of the returned table, or the exception that escapes
update_cisa_kev_column_position(df_columns) ==
    IF "Vulnerability CVSS Score" \in Elems(df_columns)
      THEN LET cvss_column_position ==
                   list_index(df_columns, "Vulnerability CVSS Score")
               removed == remove_columns(df_columns, cisa_columns)
           IN  IF removed.raised # ""
                 THEN [raised |-> removed.raised, columns |-> df_columns]
                 ELSE [raised |-> "",
                       columns |-> insert_columns(removed.columns,
                                       cvss_column_position, cisa_columns)]
      ELSE [raised |-> "", columns |-> df_columns]

\* update_is_cisa_kev: 'CisaKev' is added (as the last column when new) only
\* when the KEV table has rows and a cveID/CveID column; a KeyError on
\* 'Vulnerability CVE IDs' is caught and leaves the table as it is
update_is_cisa_kev(df_columns, cisa_kev_df) ==
    IF /\ cisa_kev_df.len > 0
       /\ "Vulnerability CVE IDs" \in Elems(df_columns)
       /\ cisa_kev_df.columns \cap {"cveID", "CveID"} # {}
       /\ "CisaKev" \notin Elems(df_columns)
      THEN Append(df_columns, "CisaKev")
      ELSE df_columns

ColumnNames ==
    {"Asset Names", "Vulnerability CVE IDs", "Vulnerability CVSS Score",
     "Vulnerability CVSSv3 Severity", "CisaKev"}

\* column lists without a repeated name
ColumnLists ==
    {q \in UNION {[1..n -> ColumnNames] : n \in 0..MaxCols} :
        \A i, j \in 1..Len(q) : q[i] = q[j] => i = j}

CisaKevTables == [len : {0, 1}, columns : SUBSET {"cveID", "CveID"}]

InitCols ==
    /\ PipelineInit
    /\ fn \in [op : {"cisa_kev"}, pc : {"loaded"}, columns : ColumnLists,
               cisa_kev_df : CisaKevTables, before : {<<>>}, raised : {""}]

UpdateIsCisaKev ==
    /\ fn.op = "cisa_kev"
    /\ fn.pc = "loaded"
    /\ fn' = [fn EXCEPT !.pc = "kev",
                        !.columns = update_is_cisa_kev(fn.columns,
                                                       fn.cisa_kev_df)]
    /\ UNCHANGED <<pc, filename, new_file, data, region, region_to_exclude,
                   idx, ret, unknown_regions, count, all_workstations, files,
                   nfiles, input_rows, last_region, last_final>>

UpdateCisaKevColumnPosition ==
    /\ fn.op = "cisa_kev"
    /\ fn.pc = "kev"
    /\ LET r == update_cisa_kev_column_position(fn.columns)
       IN  fn' = [fn EXCEPT !.pc = "positioned", !.before = fn.columns,
                            !.columns = r.columns, !.raised = r.raised]
    /\ UNCHANGED <<pc, filename, new_file, data, region, region_to_exclude,
                   idx, ret, unknown_regions, count, all_workstations, files,
                   nfiles, input_rows, last_region, last_final>>

NextCols == UpdateIsCisaKev \/ UpdateCisaKevColumnPosition

SpecCols == InitCols /\ [][NextCols]_vars

\* --------------------------------------------------- the severity classifier
\* A score is held in hundredths: 395 is 3.95, so the literals 0.1, 3.9, 4.0,
\* 6.9, 7.0, 8.9, 9.0 and 10.0 of the code are 10, 390, 400, 690, 700, 890,
\* 900 and 1000.
\* the bands with their upper ends open at the next band's start
score_to_severity_no_gaps(score) ==
    IF score = 0 THEN "None"
    ELSE IF 10 <= score /\ score < 400 THEN "Low"
    ELSE IF 400 <= score /\ score < 700 THEN "Medium"
    ELSE IF 700 <= score /\ score < 900 THEN "High"
    ELSE IF 900 <= score /\ score <= 1000 THEN "Critical"
    ELSE ""

score_to_severity(score) ==
    IF score = 0 THEN "None"
    ELSE IF 10 <= score /\ score <= 390 THEN "Low"
    ELSE IF 400 <= score /\ score <= 690 THEN "Medium"
    ELSE IF 700 <= score /\ score <= 890 THEN "High"
    ELSE IF 900 <= score /\ score <= 1000 THEN "Critical"
    ELSE ""

\* scores from -MaxScore to MaxScore hundredths: negative, in a band, in a gap
\* between two bands, above 10.0
Scores == (0 - MaxScore)..MaxScore

InitSeverity ==
    /\ PipelineInit
    /\ fn \in [op : {"score_to_severity"}, pc : {"call"}, score : Scores,
               severity : {None}]

ScoreToSeverity ==
    /\ fn.op = "score_to_severity"
    /\ fn.pc = "call"
    /\ fn' = [fn EXCEPT !.pc = "done",
                        !.severity = score_to_severity(fn.score)]
    /\ UNCHANGED <<pc, filename, new_file, data, region, region_to_exclude,
                   idx, ret, unknown_regions, count, all_workstations, files,
                   nfiles, input_rows, last_region, last_final>>

NextSeverity == ScoreToSeverity

SpecSeverity == InitSeverity /\ [][NextSeverity]_vars

\* ------------------------------------------------------- the score merge
\* A row is here its two scores (hundredths): cvss is the column
\* 'Vulnerability CVSS Score', cvss3 is 'Vulnerability CVSSv3 Score'.
\* the v3 score taken whatever it is
merged_score_v3_always(row) == row.cvss3

\* np.where(v3.ne(0), v3, v2) for one row
merged_score(row) == IF row.cvss3 # 0 THEN row.cvss3 ELSE row.cvss

\* the table after the assignment (the column keeps its place) and the drop
merge_severity_scores(t) ==
    [columns |-> list_remove(t.columns, "Vulnerability CVSSv3 Score"),
     rows |-> [k \in 1..Len(t.rows) |-> [cvss |-> merged_score(t.rows[k])]]]

MergeScores == {0, 500, 800}

MergeRows == [cvss : MergeScores, cvss3 : MergeScores]

\* column lists holding both score columns
MergeColumns ==
    {<<"Vulnerability CVSS Score", "Vulnerability CVSSv3 Score">>,
     <<"Asset Names", "Vulnerability CVSSv3 Score",
       "Vulnerability CVSS Score", "Vulnerability ID">>}

MergeTables ==
    [columns : MergeColumns,
     rows : UNION {[1..n -> MergeRows] : n \in 0..MaxMergeRows}]

InitMerge ==
    /\ PipelineInit
    /\ fn \in [op : {"merge_severity_scores"}, pc : {"call"},
               data : MergeTables, before : {<<>>}]

MergeSeverityScores ==
    /\ fn.op = "merge_severity_scores"
    /\ fn.pc = "call"
    /\ fn' = [fn EXCEPT !.pc = "done", !.before = fn.data,
                        !.data = merge_severity_scores(fn.data)]
    /\ UNCHANGED <<pc, filename, new_file, data, region, region_to_exclude,
                   idx, ret, unknown_regions, count, all_workstations, files,
                   nfiles, input_rows, last_region, last_final>>

NextMerge == MergeSeverityScores

SpecMerge == InitMerge /\ [][NextMerge]_vars

\* ------------------------------------------------- process_os on its own
\* A row is here its 'Asset OS Name' and 'Asset OS Version'.
OsNames ==
    {"Microsoft Windows 10 Enterprise", "Microsoft Windows 7",
     "Microsoft Windows Server 2019",
     "Microsoft Windows 10 on Microsoft Windows Server 2016",
     "Linux", "Cisco IOS ROUTER", "NETWORK switch", ""}

OsVersions == {"21H2", "1809", ""}

OsRows == [os : OsNames, ver : OsVersions]

OsTables == UNION {[1..n -> OsRows] : n \in 0..MaxOsRows}

InitOs ==
    /\ PipelineInit
    /\ fn \in [op : {"process_os"}, pc : {"call"}, data : OsTables,
               new_file : {<<>>}, out : {<<>>}]

ProcessOs ==
    /\ fn.op = "process_os"
    /\ fn.pc = "call"
    /\ LET r == process_os(fn.data)
       IN  fn' = [fn EXCEPT !.pc = "done", !.new_file = r.new_file,
                            !.out = r.data]
    /\ UNCHANGED <<pc, filename, new_file, data, region, region_to_exclude,
                   idx, ret, unknown_regions, count, all_workstations, files,
                   nfiles, input_rows, last_region, last_final>>

NextOs == ProcessOs

SpecOs == InitOs /\ [][NextOs]_vars

\* ------------------------------ the legacy VulnerabilityReportProcessor loop
\* old_code_to_delete.py lines 325-340: region and region_to_exclude of the
\* legacy run_standard_report_process_steps
legacy_region_of(f) ==
    IF Contains(f, "AMER")
      THEN [kind |-> "region", region |-> "AMER",
            region_to_exclude |-> "site:00677"]
    ELSE IF Contains(f, "APAC")
      THEN [kind |-> "region", region |-> "APAC", region_to_exclude |-> "CN"]
    ELSE IF Contains(f, "EMEA")
      THEN [kind |-> "region", region |-> "EMEA", region_to_exclude |-> None]
    ELSE IF \/ Contains(f, "UC") \/ Contains(f, "CGI") \/ Contains(f, "DXC")
            \/ Contains(f, "Synology") \/ Contains(f, "VoIP")
      THEN [kind |-> "wrap", region |-> None, region_to_exclude |-> None]
    ELSE [kind |-> "return", region |-> None, region_to_exclude |-> None]

\* old_code_to_delete.py lines 264-301: the legacy process_region filters and
\* updates self.unknown_regions as process_region does, and renames the
\* exclude token (line 296) before it builds the names
legacy_process_region(t, category, reg, ledger, excl) ==
    LET r == process_region(t, category, reg, ledger, excl)
        renamed == IF excl = "site:000677" THEN "WHQ" ELSE excl
    IN  [r EXCEPT !.new_file =
            IF renamed # None
              THEN <<reg \o "-" \o category, renamed \o "-" \o category>>
              ELSE <<reg \o "-" \o category>>]

\* the legacy file names that get a region
LegacyRegionFiles == OsFiles \cup NetworkFiles \cup ApplicationsFiles

\* the findings of a legacy source file: a row of Rows or an AMER row at the
\* headquarters site
LegacyRows ==
    Rows \cup {[loc |-> "AMER site:00677", os |-> "Microsoft Windows 10",
                ver |-> "22H2", vid |-> "tls-old", sev |-> "High"]}

LegacyTables == {<<>>} \cup {<<r>> : r \in LegacyRows}

InitLegacy ==
    /\ PipelineInit
    /\ fn \in [op : {"legacy_run_standard"}, pc : {"call"},
               filename : LegacyRegionFiles, input : LegacyTables,
               new_file : {<<>>}, data : {<<>>}, region : {None},
               region_to_exclude : {None}, idx : {0},
               unknown_regions :
                   {<< <<"OS">>, <<"Network">>, <<"Applications">> >>},
               last : {NoRegionCall}]

\* old_code_to_delete.py lines 304-340
LegacyCategorySplit ==
    /\ fn.op = "legacy_run_standard"
    /\ fn.pc = "call"
    /\ LET cs == category_split(fn.filename, fn.input)
           rg == legacy_region_of(fn.filename)
       IN  fn' = [fn EXCEPT !.pc = "region", !.new_file = cs.new_file,
                            !.data = cs.data, !.region = rg.region,
                            !.region_to_exclude = rg.region_to_exclude]
    /\ UNCHANGED <<pc, filename, new_file, data, region, region_to_exclude,
                   idx, ret, unknown_regions, count, all_workstations, files,
                   nfiles, input_rows, last_region, last_final>>

\* old_code_to_delete.py lines 347-350: one iteration of the loop
LegacyProcessRegion ==
    /\ fn.op = "legacy_run_standard"
    /\ fn.pc = "region"
    /\ fn.idx < Len(fn.data)
    /\ LET i == fn.idx + 1
           r == legacy_process_region(fn.data[i], fn.new_file[i], fn.region,
                                      fn.unknown_regions, fn.region_to_exclude)
       IN  fn' = [fn EXCEPT
                    !.new_file = [fn.new_file EXCEPT ![i] = r.new_file],
                    !.data = [fn.data EXCEPT ![i] = r.data],
                    !.unknown_regions = r.unknown_regions,
                    !.idx = i,
                    !.pc = IF i = Len(fn.data) THEN "record" ELSE "region",
                    !.last = [called |-> TRUE, data |-> fn.data[i],
                              category |-> fn.new_file[i],
                              region |-> fn.region,
                              region_to_exclude |-> fn.region_to_exclude,
                              before |-> fn.unknown_regions,
                              out_names |-> r.new_file,
                              out_data |-> r.data]]
    /\ UNCHANGED <<pc, filename, new_file, data, region, region_to_exclude,
                   idx, ret, unknown_regions, count, all_workstations, files,
                   nfiles, input_rows, last_region, last_final>>

NextLegacy == LegacyCategorySplit \/ LegacyProcessRegion

SpecLegacy == InitLegacy /\ [][NextLegacy]_vars

\* ---------------------------------------------- process_region on its own
\* process_region is a module-level function: a caller may hand it any
\* category string and any ledger it has filled by earlier calls.
RegionCategories == category_mapping_keys \cup {"UC"}

\* (region, region_to_exclude) pairs with and without an exclude token
RegionPairs == {<<"AMER", "WHQ">>, <<"EMEA", None>>}

\* one direct call; nfiles counts the calls made
DirectProcessRegion(t, category, reg, excl) ==
    /\ pc = "idle"
    /\ nfiles < MaxFiles
    /\ LET r == process_region(t, category, reg, unknown_regions, excl)
       IN  /\ unknown_regions' = r.unknown_regions
           /\ last_region' =
                [called |-> TRUE, data |-> t, category |-> category,
                 region |-> reg, region_to_exclude |-> excl,
                 before |-> unknown_regions,
                 out_names |-> r.new_file, out_data |-> r.data]
    /\ nfiles' = nfiles + 1
    /\ UNCHANGED <<pc, filename, new_file, data, region, region_to_exclude,
                   idx, ret, count, all_workstations, files, input_rows,
                   last_final, fn>>

NextRegion ==
    \E t \in RunTables, category \in RegionCategories, p \in RegionPairs :
        DirectProcessRegion(t, category, p[1], p[2])

SpecRegion == Init /\ [][NextRegion]_vars

\* ---------------------------------------------------- the report namer
\* The table names process_final_file can be handed: the names process_region
\* builds, the pass-through file names, and a name no table entry matches.
RegionTableNames ==
    {reg \o "-" \o category :
        reg \in {"AMER", "WHQ", "APAC", "CN", "EMEA"},
        category \in category_mapping_keys}

TableNames == RegionTableNames \cup PassThroughFiles \cup {"Other"}

\* new_file with a first group of one or two names
NameLists ==
    {<< <<a>> >> : a \in TableNames} \cup
    {<< <<a, b>> >> : a \in TableNames, b \in TableNames}

InitName ==
    /\ PipelineInit
    /\ fn \in [op : {"report_filename"}, pc : {"call"}, new_file : NameLists,
               filename : {None}]

\* lines 229-238 of process_final_file
ReportFilename ==
    /\ fn.op = "report_filename"
    /\ fn.pc = "call"
    /\ fn' = [fn EXCEPT !.pc = "done",
                        !.filename = report_filename(fn.new_file)]
    /\ UNCHANGED <<pc, filename, new_file, data, region, region_to_exclude,
                   idx, ret, unknown_regions, count, all_workstations, files,
                   nfiles, input_rows, last_region, last_final>>

NextName == ReportFilename

SpecName == InitName /\ [][NextName]_vars

\* ----------------------------------------- the legacy run: manage_reports
\* A file of the raw-data folder is here what happens when it is read:
\* "zero-size" fails check_if_file_is_valid, "no rows" loads as an empty
\* table, "rows" loads and is processed, "raises" loads and then raises in a
\* processing step.
FileKinds == {"zero-size", "no rows", "rows", "raises"}

\* os.listdir(self.raw_data_path), read once when the loop starts
Listings == UNION {[1..n -> FileKinds] : n \in 0..MaxRawFiles}

\* check_data_status with the two merge settings joined by `or`
check_data_status_either(quit_execution, skip_data_process, len_data, merge_files_dict, merge_data_folder) ==
    IF quit_execution THEN [status |-> "QUIT", quit_execution |-> TRUE]
    ELSE IF skip_data_process
      THEN [status |-> "SKIP", quit_execution |-> quit_execution]
    ELSE IF len_data = 0 /\ (merge_files_dict \/ merge_data_folder)
      THEN [status |-> "QUIT", quit_execution |-> TRUE]
    ELSE IF len_data = 0
      THEN [status |-> "SKIP", quit_execution |-> FALSE]
    ELSE [status |-> "CONTINUE", quit_execution |-> FALSE]

\* old_code_to_delete.py lines 584-601; merge_files_dict is TRUE for a
\* non-empty list, merge_data_folder is TRUE for a non-empty folder name
check_data_status(quit_execution, skip_data_process, len_data, merge_files_dict, merge_data_folder) ==
    IF quit_execution THEN [status |-> "QUIT", quit_execution |-> TRUE]
    ELSE IF skip_data_process
      THEN [status |-> "SKIP", quit_execution |-> quit_execution]
    ELSE IF len_data = 0 /\ merge_files_dict /\ merge_data_folder
      THEN [status |-> "QUIT", quit_execution |-> TRUE]
    ELSE IF len_data = 0
      THEN [status |-> "SKIP", quit_execution |-> FALSE]
    ELSE [status |-> "CONTINUE", quit_execution |-> FALSE]

InitManage ==
    /\ PipelineInit
    /\ fn \in [op : {"manage_reports"}, pc : {"start"},
               report_name : {"Standard", "All Critical"},
               download_new_reports : BOOLEAN, merge_files_dict : BOOLEAN,
               merge_data_folder : BOOLEAN,
               listing : Listings, i : {0}, handled : {{}}, outcome : {<<>>},
               quit_execution : {FALSE}, flushed : {FALSE},
               merged : {FALSE}]

\* lines 766-770: download_reports, then process_reports starts its loop
ManageReports ==
    /\ fn.op = "manage_reports"
    /\ fn.pc = "start"
    /\ fn' = [fn EXCEPT !.pc = IF fn.download_new_reports
                                 THEN "process_reports" ELSE "end"]
    /\ UNCHANGED <<pc, filename, new_file, data, region, region_to_exclude,
                   idx, ret, unknown_regions, count, all_workstations, files,
                   nfiles, input_rows, last_region, last_final>>

\* lines 651-704: one iteration of the loop of process_reports; `return` on
\* QUIT leaves the loop, every other path goes on with the next file
ProcessReports ==
    /\ fn.op = "manage_reports"
    /\ fn.pc = "process_reports"
    /\ fn.i < Len(fn.listing)
    /\ LET kind == fn.listing[fn.i + 1]
           st == check_data_status(FALSE, FALSE,
                                   IF kind = "no rows" THEN 0 ELSE 1,
                                   fn.merge_files_dict, fn.merge_data_folder)
           quit == kind # "zero-size" /\ st.status = "QUIT"
           done == IF kind = "zero-size" THEN "not valid"
                   ELSE IF st.status # "CONTINUE" THEN st.status
                   ELSE IF kind = "raises" THEN "raised"
                   ELSE "processed"
       IN  fn' = [fn EXCEPT !.i = fn.i + 1,
                            !.handled = fn.handled \cup {fn.i + 1},
                            !.outcome = Append(fn.outcome, done),
                            !.quit_execution = quit,
                            !.pc = IF quit THEN "processed"
                                   ELSE "process_reports"]
    /\ UNCHANGED <<pc, filename, new_file, data, region, region_to_exclude,
                   idx, ret, unknown_regions, count, all_workstations, files,
                   nfiles, input_rows, last_region, last_final>>

\* line 651: the listing is exhausted
ProcessReportsEnd ==
    /\ fn.op = "manage_reports"
    /\ fn.pc = "process_reports"
    /\ fn.i = Len(fn.listing)
    /\ fn' = [fn EXCEPT !.pc = "processed"]
    /\ UNCHANGED <<pc, filename, new_file, data, region, region_to_exclude,
                   idx, ret, unknown_regions, count, all_workstations, files,
                   nfiles, input_rows, last_region, last_final>>

\* lines 771-772: the flush, for the Standard report only
ProcessAllWorkstationsUnknownregions ==
    /\ fn.op = "manage_reports"
    /\ fn.pc = "processed"
    /\ fn' = [fn EXCEPT !.pc = "merge",
                        !.flushed = (fn.report_name = "Standard")]
    /\ UNCHANGED <<pc, filename, new_file, data, region, region_to_exclude,
                   idx, ret, unknown_regions, count, all_workstations, files,
                   nfiles, input_rows, last_region, last_final>>

\* lines 526-535 and 773: the master files are written unless the run was
\* quit or no merge is configured
MergeSplitFilesToMasterExcelFile ==
    /\ fn.op = "manage_reports"
    /\ fn.pc = "merge"
    /\ fn' = [fn EXCEPT !.pc = "end",
                        !.merged = /\ ~ fn.quit_execution
                                   /\ fn.merge_files_dict
                                   /\ fn.merge_data_folder]
    /\ UNCHANGED <<pc, filename, new_file, data, region, region_to_exclude,
                   idx, ret, unknown_regions, count, all_workstations, files,
                   nfiles, input_rows, last_region, last_final>>

NextManage ==
    \/ ManageReports
    \/ ProcessReports
    \/ ProcessReportsEnd
    \/ ProcessAllWorkstationsUnknownregions
    \/ MergeSplitFilesToMasterExcelFile

SpecManage == InitManage /\ [][NextManage]_vars

\* ------------------------------------------------------ the spreadsheet sink
\* A worksheet is a function from 0-based sheet rows to what the row holds:
\* the header (the column names) or a data row.  A workbook is the list of
\* its sheets <<name, cells>>.  A path holds no file ("absent"), a saved
\* workbook, or bytes that are no complete workbook ("damaged").
Header ==
    [loc |-> "Asset Location", os |-> "Asset OS Name",
     ver |-> "Asset OS Version", vid |-> "Vulnerability ID",
     sev |-> "Vulnerability CVSSv3 Severity"]

NoCells == [r \in {} |-> Header]

NoFile == [state |-> "absent", sheets |-> <<>>]

Damaged == [state |-> "damaged", sheets |-> <<>>]

Saved(book) == [state |-> "workbook", sheets |-> book]

\* the cells of a sheet after DataFrame.to_excel(header=..., startrow=...,
\* index=False): the header, when asked for, goes to row startrow and the
\* data rows follow; a cell written before is overwritten
to_excel_cells(cells, chunk, header, startrow) ==
    LET off == IF header THEN 1 ELSE 0
        written == (IF header THEN {startrow} ELSE {}) \cup
                   {startrow + off + k - 1 : k \in 1..Len(chunk)}
    IN  [r \in DOMAIN cells \cup written |->
            IF r \notin written THEN cells[r]
            ELSE IF header /\ r = startrow THEN Header
            ELSE chunk[r - startrow - off + 1]]

\* to_excel on a writer in write mode: a sheet of that name is reused,
\* otherwise the sheet is created
to_excel(book, sheet_name, chunk, header, startrow) ==
    IF \E k \in 1..Len(book) : book[k][1] = sheet_name
      THEN [k \in 1..Len(book) |->
               IF book[k][1] = sheet_name
                 THEN <<sheet_name,
                        to_excel_cells(book[k][2], chunk, header, startrow)>>
                 ELSE book[k]]
      ELSE Append(book, <<sheet_name,
                          to_excel_cells(NoCells, chunk, header, startrow)>>)

\* CommonFunctions.py line 78
start_row_of(i, chunk_size) == i * chunk_size

\* CommonFunctions.py lines 77-83: the chunks i, i+1, ..., num_chunks-1 of one
\* sheet
RECURSIVE write_chunks(_, _, _, _, _, _)
write_chunks(book, sheet_name, t, chunk_size, i, num_chunks) ==
    IF i >= num_chunks THEN book
    ELSE LET start_row == start_row_of(i, chunk_size)
             end_row == Min(i * chunk_size + chunk_size, Len(t))
             chunk == SubSeq(t, i * chunk_size + 1, end_row)
         IN  write_chunks(to_excel(book, sheet_name, chunk, i = 0, start_row),
                          sheet_name, t, chunk_size, i + 1, num_chunks)

\* CommonFunctions.py lines 71-83: every sheet of sheet_list, in order
RECURSIVE write_sheets(_, _, _)
write_sheets(book, sheet_list, chunk_size) ==
    IF sheet_list = <<>> THEN book
    ELSE LET sheet_name == Head(sheet_list)[1]
             t == Head(sheet_list)[2]
             num_chunks == (Len(t) \div chunk_size) + 1
         IN  write_sheets(write_chunks(book, sheet_name, t, chunk_size, 0,
                                       num_chunks),
                          Tail(sheet_list), chunk_size)

\* the exception classes a failing sink raises; all derive from Exception
SinkErrors == {"ValueError", "OSError"}

\* `except ValueError` in place of `except Exception`
except_Exception_narrowed(raised) == raised = "ValueError"

\* `except Exception`: is the exception caught
except_Exception(raised) == raised \in SinkErrors \cup {"IndexError"}

\* what a handler lets through
escaping(raised) ==
    IF raised = "" \/ except_Exception(raised) THEN "" ELSE raised

\* publish_data_into_excel_file_with_sheets: the file at the path and the
\* exception that leaves the function.  sink is "" when the writer works,
\* "open" when the path cannot be opened, "write" when a write or the save
\* raises; a writer closed without any sheet leaves, depending on the Excel
\* engine, a workbook without data or no complete workbook.
publish_data_into_excel_file_with_sheets(file, sheet_list, chunk_size, sink, empty_workbook_written) ==
    IF sink = "open" THEN [file |-> file, raised |-> escaping("OSError")]
    ELSE IF sink = "write"
      THEN [file |-> Damaged, raised |-> escaping("OSError")]
    ELSE LET book == write_sheets(<<>>, sheet_list, chunk_size)
         IN  IF book = <<>> /\ ~ empty_workbook_written
               THEN [file |-> Damaged, raised |-> escaping("IndexError")]
               ELSE [file |-> Saved(book), raised |-> ""]

\* Tables handed to the writer: two distinguishable rows, any order.
SinkTables == UNION {[1..n -> SplitRows] : n \in 0..MaxSinkRows}

InitPublish ==
    /\ PipelineInit
    /\ fn \in [op : {"publish"}, pc : {"call"}, data : SinkTables,
               max_sheet_rows : 1..MaxChunkSize, chunk_size : 1..MaxChunkSize,
               sink : {"", "open", "write"},
               empty_workbook_written : BOOLEAN,
               file : {NoFile}, raised : {""}]

\* split_dataframe, then publish_data_into_excel_file_with_sheets, as every
\* caller does
PublishDataIntoExcelFileWithSheets ==
    /\ fn.op = "publish"
    /\ fn.pc = "call"
    /\ LET r == publish_data_into_excel_file_with_sheets(fn.file,
                    split_dataframe(fn.data, fn.max_sheet_rows),
                    fn.chunk_size, fn.sink, fn.empty_workbook_written)
       IN  fn' = [fn EXCEPT !.pc = "done", !.file = r.file,
                            !.raised = r.raised]
    /\ UNCHANGED <<pc, filename, new_file, data, region, region_to_exclude,
                   idx, ret, unknown_regions, count, all_workstations, files,
                   nfiles, input_rows, last_region, last_final>>

\* What the sink does during one process_final_file: open, close and publish
\* tell whether the outer writer opens, the outer writer saves and the
\* fallback writer works; to_excel gives, for the k-th table of the first
\* group, what its to_excel raises; intact tells whether the outer writer's
\* save, made after a fallback writer has written the same path, leaves a
\* complete workbook.
SinkPlans ==
    [open : {"", "OSError"}, close : {"", "OSError"},
     to_excel : [1..2 -> {""} \cup SinkErrors],
     publish : {"", "open", "write"},
     empty_workbook_written : BOOLEAN, intact : BOOLEAN]

\* StandardReportProcessingSteps.py lines 248-278: the tables from the k-th
\* on, in loop order.  st is the outer writer's workbook, the file at the
\* path, whether the fallback has run, and the exception on its way out.
RECURSIVE write_tables(_, _, _, _, _, _, _)
write_tables(names, d, k, st, plan, max_sheet_rows, chunk_size) ==
    IF k > Len(Leaves(d)) \/ st.raised # "" THEN st
    ELSE LET ij == Leaves(d)[k]
             sheet_name == names[ij[1]][ij[2]]
             t == d[ij[1]][ij[2]]
             fails == plan.to_excel[k]
             fallback == publish_data_into_excel_file_with_sheets(st.file,
                             split_dataframe(t, max_sheet_rows), chunk_size,
                             plan.publish, plan.empty_workbook_written)
             next ==
                 IF Len(t) = 0 THEN st
                 ELSE IF fails = ""
                   THEN [st EXCEPT !.book =
                            to_excel(st.book, sheet_name, t, TRUE, 0)]
                 ELSE IF fails = "ValueError"
                   THEN [st EXCEPT !.file = fallback.file,
                                   !.fallback = TRUE,
                                   !.raised = fallback.raised]
                 ELSE [st EXCEPT !.raised = fails]
         IN  write_tables(names, d, k + 1, next, plan, max_sheet_rows,
                          chunk_size)

\* StandardReportProcessingSteps.py lines 245-281: the file at the report's
\* path when process_final_file returns, and the exception that leaves it.
\* Leaving the `with` block, normally or by an exception, closes the outer
\* writer, which saves its workbook to the path.
final_file_written(names, d, plan, max_sheet_rows, chunk_size) ==
    IF plan.open # ""
      THEN [file |-> NoFile, raised |-> escaping(plan.open)]
    ELSE LET st == write_tables(names, d, 1,
                       [book |-> <<>>, file |-> Damaged, fallback |-> FALSE,
                        raised |-> ""],
                       plan, max_sheet_rows, chunk_size)
             closed ==
                 IF plan.close # ""
                   THEN [file |-> Damaged, raised |-> plan.close]
                 ELSE IF st.book = <<>> /\ ~ plan.empty_workbook_written
                   THEN [file |-> Damaged, raised |-> "IndexError"]
                 ELSE IF st.fallback /\ ~ plan.intact
                   THEN [file |-> Damaged, raised |-> ""]
                 ELSE [file |-> Saved(st.book), raised |-> ""]
         IN  [file |-> closed.file,
              raised |-> escaping(IF st.raised # "" THEN st.raised
                                  ELSE closed.raised)]

\* the tables of the first group: none, one or two rows
FinalTables ==
    {<<>>,
     <<[loc |-> "AMER", os |-> "Microsoft Windows 10", ver |-> "21H2",
        vid |-> "msft-cve-1", sev |-> "Critical"]>>,
     <<[loc |-> "AMER", os |-> "Microsoft Windows 10", ver |-> "21H2",
        vid |-> "msft-cve-1", sev |-> "Critical"],
       [loc |-> "WHQ", os |-> "Microsoft Windows 11", ver |-> "22H2",
        vid |-> "tls-old", sev |-> "Low"]>>}

InitFinal ==
    /\ PipelineInit
    /\ fn \in [op : {"process_final_file"}, pc : {"call"},
               new_file : {<< <<"AMER-Workstations", "WHQ-Workstations">> >>},
               data : {<< <<a, b>> >> : a \in FinalTables, b \in FinalTables},
               plan : SinkPlans,
               max_sheet_rows : 1..MaxChunkSize, chunk_size : 1..MaxChunkSize,
               file : {NoFile}, raised : {""}]

\* the file-writing part of process_final_file, called with the scaled
\* defaults of split_dataframe and publish_data_into_excel_file_with_sheets
ProcessFinalFileSink ==
    /\ fn.op = "process_final_file"
    /\ fn.pc = "call"
    /\ LET r == final_file_written(fn.new_file, fn.data, fn.plan,
                                   fn.max_sheet_rows, fn.chunk_size)
       IN  fn' = [fn EXCEPT !.pc = "done", !.file = r.file,
                            !.raised = r.raised]
    /\ UNCHANGED <<pc, filename, new_file, data, region, region_to_exclude,
                   idx, ret, unknown_regions, count, all_workstations, files,
                   nfiles, input_rows, last_region, last_final>>

InitSink == InitPublish \/ InitFinal

NextSink == PublishDataIntoExcelFileWithSheets \/ ProcessFinalFileSink

SpecSink == InitSink /\ [][NextSink]_vars

\* ------------------------------------------------------- the ledger flush
\* the characters of the table names, in code point order
CodePoints ==
    " -0123456789ABCDEFGHIJKLMNOPQRSTUVWXYZabcdefghijklmnopqrstuvwxyz"

ord(c) == CHOOSE i \in 1..Len(CodePoints) : SubSeq(CodePoints, i, i) = c

\* a < b for Python strings
RECURSIVE str_lt(_, _)
str_lt(a, b) ==
    IF b = "" THEN FALSE
    ELSE IF a = "" THEN TRUE
    ELSE IF SubSeq(a, 1, 1) # SubSeq(b, 1, 1)
      THEN ord(SubSeq(a, 1, 1)) < ord(SubSeq(b, 1, 1))
    ELSE str_lt(SubSeq(a, 2, Len(a)), SubSeq(b, 2, Len(b)))

\* count_df.sort_values('File'): a new order of the rows of count_df, rows
\* with the same File in their order of entry (tables of this size are
\* sorted by insertion)
RECURSIVE sort_values_File(_)
sort_values_File(q) ==
    IF q = <<>> THEN <<>>
    ELSE LET rest == sort_values_File(SubSeq(q, 1, Len(q) - 1))
             last == q[Len(q)]
             not_after(e) == ~ str_lt(last[1], e[1])
             after(e) == str_lt(last[1], e[1])
         IN  SelectSeq(rest, not_after) \o <<last>> \o SelectSeq(rest, after)

\* CommonFunctions.py line 53: the default of max_sheet_rows
max_sheet_rows_default == 1048000

\* lines 306-308, 316-318, 327-329: split_dataframe, then
\* publish_data_into_excel_file_with_sheets on base name + date + ".xlsx".
\* A table without rows gives no sheet, and a writer closed without a sheet
\* leaves a workbook only with some Excel engines.
publish_split(fs, base_filename, t, empty_workbook_written) ==
    LET sheets_list == split_dataframe(t, max_sheet_rows_default)
    IN  IF sheets_list # <<>> \/ empty_workbook_written
          THEN write_file(fs, base_filename \o today_date_str \o ".xlsx",
                          sheets_list)
          ELSE fs

\* lines 311-320: the loop over the slots of unknown_regions, from slot i on
RECURSIVE publish_unknown_regions(_, _, _, _)
publish_unknown_regions(fs, ledger, i, empty_workbook_written) ==
    IF i > Len(ledger) THEN fs
    ELSE publish_unknown_regions(
            IF Len(ledger[i]) > 1 /\ Len(ledger[i][2]) > 0
              THEN publish_split(fs, "Unknown regions - " \o ledger[i][1],
                                 ledger[i][2], empty_workbook_written)
              ELSE fs,
            ledger, i + 1, empty_workbook_written)

\* the base names of the files the flush can write
flush_filenames(ledger) ==
    {"All Workstations", "Total Count"} \cup
    {"Unknown regions - " \o ledger[i][1] : i \in 1..Len(ledger)}

\* lines 285-332: the files after the flush.  count_df is a table built from
\* the rows of count; sorting it leaves the list count as it was.
process_all_workstations_unknownregions(all_ws, ledger, cnt, fs, empty_workbook_written) ==
    LET fs1 == IF all_ws # <<>>
                 THEN publish_split(fs, "All Workstations", all_ws,
                                    empty_workbook_written)
                 ELSE fs
        fs2 == publish_unknown_regions(fs1, ledger, 1, empty_workbook_written)
        count_df == sort_values_File(cnt)
    IN  [files |-> publish_split(fs2, "Total Count", count_df,
                                 empty_workbook_written),
         count |-> cnt]

\* the flush sorting the list count itself
FlushLedgers_sorted_in_place(empty_workbook_written) ==
    /\ pc = "idle"
    /\ LET r == process_all_workstations_unknownregions(all_workstations,
                    unknown_regions, count, files, empty_workbook_written)
       IN  /\ files' = r.files
           /\ count' = sort_values_File(r.count)
    /\ UNCHANGED <<pc, filename, new_file, data, region, region_to_exclude,
                   idx, ret, unknown_regions, all_workstations, nfiles,
                   input_rows, last_region, last_final, fn>>

\* process_all_workstations_unknownregions called by the orchestrator with
\* its accumulators, between two calls of run_standard_report_process_steps
\* or after the last one
FlushLedgers(empty_workbook_written) ==
    /\ pc = "idle"
    /\ LET r == process_all_workstations_unknownregions(all_workstations,
                    unknown_regions, count, files, empty_workbook_written)
       IN  /\ files' = r.files
           /\ count' = r.count
    /\ UNCHANGED <<pc, filename, new_file, data, region, region_to_exclude,
                   idx, ret, unknown_regions, all_workstations, nfiles,
                   input_rows, last_region, last_final, fn>>

\* The source files of a run with flushes: a file split by category and
\* region with an excluded region, one with a single table, and one of no
\* recognized category; each empty, or with one finding of either region.
FlushRunFilenames == {"AMER - OS", "EMEA - Network", "UC - Phones"}

FlushRunTables ==
    {<<>>} \cup {<<r>> : r \in {x \in Rows : x.loc \in {"AMER", "EMEA"}}}

\* A run with flushes: the calls of Spec, and the flush whenever no call is
\* under way.
NextRun ==
    \/ \E f \in FlushRunFilenames, t \in FlushRunTables : NotRecognized(f, t)
    \/ \E f \in FlushRunFilenames, t \in FlushRunTables : CategorySplit(f, t)
    \/ ProcessRegion
    \/ ProcessAndRecordData
    \/ \E b \in BOOLEAN : ProcessFinalFile(b)
    \/ \E b \in BOOLEAN : FlushLedgers(b)

SpecRun == Init /\ [][NextRun]_vars

\* ------------------------------------------- the report name of a file
\* lines 16-59: new_file as handed to process_final_file for the declared
\* file name f and the table t
standard_new_file(f, t) ==
    LET cs == category_split(f, t)
        rg == region_of(f)
    IN  IF rg.kind = "region"
          THEN [k \in 1..Len(cs.new_file) |->
                   process_region(cs.data[k], cs.new_file[k], rg.region,
                                  << <<"OS">>, <<"Network">>,
                                     <<"Applications">> >>,
                                  rg.region_to_exclude).new_file]
          ELSE <<cs.new_file>>

\* lines 16-59 and 205-240: the base name of the report written for f
report_of_file(f, t) == report_filename(standard_new_file(f, t))

InitReports ==
    /\ PipelineInit
    /\ fn \in [op : {"report_of_file"}, pc : {"call"},
               filenames : RecognizedFiles \X RecognizedFiles,
               data : RunTables, reports : {<<>>}]

\* two recognized files taken through the pipeline up to the report name
ReportOfFile ==
    /\ fn.op = "report_of_file"
    /\ fn.pc = "call"
    /\ fn' = [fn EXCEPT !.pc = "done",
                        !.reports = <<report_of_file(fn.filenames[1], fn.data),
                                      report_of_file(fn.filenames[2], fn.data)>>]
    /\ UNCHANGED <<pc, filename, new_file, data, region, region_to_exclude,
                   idx, ret, unknown_regions, count, all_workstations, files,
                   nfiles, input_rows, last_region, last_final>>

NextReports == ReportOfFile

SpecReports == InitReports /\ [][NextReports]_vars

\* ------------------------------------------------ the default count ledger
\* lines 16-59: data as handed to process_and_record_data for the declared
\* file name f and the table t
standard_data(f, t) ==
    LET cs == category_split(f, t)
        rg == region_of(f)
    IN  IF rg.kind = "region"
          THEN [k \in 1..Len(cs.data) |->
                   process_region(cs.data[k], cs.new_file[k], rg.region,
                                  << <<"OS">>, <<"Network">>,
                                     <<"Applications">> >>,
                                  rg.region_to_exclude).data]
          ELSE <<cs.data>>

\* lines 16-65: the list bound to count when the call returns, and whether
\* the call returned (None, None) in place of the ledgers
standard_count(f, t, cnt) ==
    IF f \notin RecognizedFiles
      THEN [none |-> TRUE, count |-> cnt]
      ELSE [none |-> FALSE,
            count |-> process_and_record_data(standard_new_file(f, t),
                                              standard_data(f, t), cnt).count]

\* a new list made for every call that omits count
default_count_fresh(stored) == <<>>

\* line 12, count:list=[] : the list bound to count in a call that omits it
\* is the one list made when the def statement ran
default_count(stored) == stored

\* default_list is the list held by the function as the default of count,
\* callers_list a list owned by a caller; returned is what the last call
\* returned as its second value; omitted_entries are the entries that the
\* calls omitting count have appended, call by call.
InitDefault ==
    /\ PipelineInit
    /\ fn = [op |-> "default_count", calls |-> 0, omitted |-> 0,
             last |-> "none", default_list |-> <<>>, callers_list |-> <<>>,
             returned |-> [none |-> TRUE, count |-> <<>>],
             omitted_entries |-> <<>>]

\* run_standard_report_process_steps(filename, data, unknown_regions,
\* processed_data_path, today_date_str, all_workstations)
CallOmittingCount(f, t) ==
    /\ fn.op = "default_count"
    /\ fn.calls < MaxFiles
    /\ LET r == standard_count(f, t, default_count(fn.default_list))
       IN  fn' = [fn EXCEPT !.calls = @ + 1, !.omitted = @ + 1,
                            !.last = "omitted",
                            !.default_list = r.count,
                            !.returned =
                                [none |-> r.none,
                                 count |-> IF r.none THEN <<>> ELSE r.count],
                            !.omitted_entries =
                                @ \o standard_count(f, t, <<>>).count]
    /\ UNCHANGED <<pc, filename, new_file, data, region, region_to_exclude,
                   idx, ret, unknown_regions, count, all_workstations, files,
                   nfiles, input_rows, last_region, last_final>>

\* the same call with count=callers_list
CallPassingCount(f, t) ==
    /\ fn.op = "default_count"
    /\ fn.calls < MaxFiles
    /\ LET r == standard_count(f, t, fn.callers_list)
       IN  fn' = [fn EXCEPT !.calls = @ + 1,
                            !.last = "passed",
                            !.callers_list = r.count,
                            !.returned =
                                [none |-> r.none,
                                 count |-> IF r.none THEN <<>> ELSE r.count]]
    /\ UNCHANGED <<pc, filename, new_file, data, region, region_to_exclude,
                   idx, ret, unknown_regions, count, all_workstations, files,
                   nfiles, input_rows, last_region, last_final>>

NextDefault ==
    \/ \E f \in FlushRunFilenames, t \in FlushRunTables : CallOmittingCount(f, t)
    \/ \E f \in FlushRunFilenames, t \in FlushRunTables : CallPassingCount(f, t)

SpecDefault == InitDefault /\ [][NextDefault]_vars

\* =================================================================== claims
\* the table held by slot k of a ledger (empty while the slot is [label])
SlotTable(ledger, k) == IF Len(ledger[k]) = 1 THEN <<>> ELSE ledger[k][2]

\* the rows the last process_region call added to its ledger slot
Contribution ==
    LET k == category_mapping(last_region.category) + 1
        was == SlotTable(last_region.before, k)
        now == SlotTable(unknown_regions, k)
    IN  SubSeq(now, Len(was) + 1, Len(now))

\* the last process_region call had a recognized category and an exclude token
RegionCallWithExclude ==
    /\ last_region.called
    /\ last_region.category \in
          {"Workstations", "Servers", "Network", "Applications"}
    /\ last_region.region_to_exclude # None

\* C1: in process_region with a recognized category and an exclude token,
\* every row appended to the unknown-region ledger matches neither the region
\* token nor the exclude token (a row matching the exclude token is never
\* added, so no row is in more than one destination).
C1_OnlyUnmatchedRowsInLedger ==
    RegionCallWithExclude =>
        \A k \in 1..Len(Contribution) :
            /\ ~ Contains(Contribution[k].loc, last_region.region)
            /\ ~ Contains(Contribution[k].loc, last_region.region_to_exclude)

\* C2: in process_region with a recognized category and an exclude token, no
\* input row is lost: each row of the input table is in the region table, in
\* the excluded table or among the rows the call appended to the ledger.
C2_NoRowLost ==
    RegionCallWithExclude =>
        \A k \in 1..Len(last_region.data) :
            last_region.data[k] \in
                Elems(last_region.out_data[1]) \cup
                Elems(last_region.out_data[2]) \cup Elems(Contribution)

\* C2 witness: a call of three rows whose region table, excluded table and
\* ledger contribution are all non-empty.
C2_Witness ==
    /\ RegionCallWithExclude
    /\ Len(last_region.data) = MaxRows
    /\ last_region.out_data[1] # <<>>
    /\ last_region.out_data[2] # <<>>
    /\ Contribution # <<>>

\* the sheets of the last report whose name contains "Workstations"
WorkstationSheets ==
    {k \in 1..Len(last_final.sheets) :
        Contains(last_final.sheets[k][1], "Workstations")}

\* C3: after run_standard_report_process_steps returns for a file that
\* produced a non-empty table named with "Workstations", the caller's
\* all_workstations contains that table's rows.
C3_WorkstationsAccumulated ==
    (pc = "idle" /\ ret = "(unknown_regions, count)" /\ last_final.called) =>
        \A k \in WorkstationSheets :
            Elems(last_final.sheets[k][2]) \subseteq Elems(all_workstations)

\* no two rows of the table are equal
NoEqualRows(t) == \A i, j \in 1..Len(t) : t[i] = t[j] => i = j

\* C4: every leaf table returned by process_and_record_data, the ones on the
\* tally skip-list included, has no two equal rows.
C4_EveryLeafDeduplicated ==
    pc = "final" =>
        \A i \in 1..Len(data) : \A j \in 1..Len(data[i]) :
            NoEqualRows(data[i][j])

\* the names of the leaf tables, in loop order
LeafNames ==
    LET l == Leaves(data) IN [k \in 1..Len(l) |-> new_file[l[k][1]][l[k][2]]]

\* the skip-list of the tally, spelled out
OnSkipList(name) ==
    \E s \in {"UC", "CGI", "DXC", "Synology", "WHQ-Servers"} :
        Contains(name, s)

NotOnSkipList(name) == ~ OnSkipList(name)

\* C5 as stated: the count ledger never holds an entry for an excluded-region
\* table (name starting with WHQ- or CN-) nor for a pass-through table.
C5_NoExcludedNoPassThrough ==
    \A k \in 1..Len(count) :
        /\ ~ StartsWith(count[k][1], "WHQ-")
        /\ ~ StartsWith(count[k][1], "CN-")
        /\ count[k][1] \notin {"UC", "CGI - OS", "CGI - Applications",
               "DXC - OS", "DXC - Applications", "DXC", "DXC - DMZ",
               "Synology", "Externally Facing - HK VoIP"}

\* C5 amended: the count ledger never holds an entry whose name contains UC,
\* CGI, DXC, Synology or WHQ-Servers, and when process_and_record_data ends
\* the ledger ends with exactly one entry per leaf table of the file whose
\* name is not on that list, in loop order (WHQ-Workstations, CN-* and
\* Externally Facing - HK VoIP are recorded).
C5_OneEntryPerTableOffSkipList ==
    /\ \A k \in 1..Len(count) : ~ OnSkipList(count[k][1])
    /\ pc = "final" =>
          LET want == SelectSeq(LeafNames, NotOnSkipList)
          IN  /\ Len(count) >= Len(want)
              /\ \A k \in 1..Len(want) :
                    count[Len(count) - Len(want) + k][1] = want[k]

\* C5 witness: an excluded-region table and its region table are recorded
\* while WHQ-Servers, a leaf of the same file, is not.
C5_Witness ==
    /\ pc = "final"
    /\ filename = "AMER - OS"
    /\ \E k \in 1..Len(count) : count[k][1] = "WHQ-Workstations"
    /\ \E i \in 1..Len(data) : \E j \in 1..Len(data[i]) :
          new_file[i][j] = "WHQ-Servers" /\ data[i][j] # <<>>

\* the entry the claim asks for, from the rows of the table taken as a set
ExpectedEntry(name, t) ==
    <<name,
      Cardinality({r \in Elems(t) : r.sev = "Critical"}),
      Cardinality({r \in Elems(t) : r.sev = "High"}),
      Cardinality(Elems(t))>>

ExpectedEntries(names, d) ==
    LET off(ij) == ~ OnSkipList(names[ij[1]][ij[2]])
        l == SelectSeq(Leaves(d), off)
    IN  [k \in 1..Len(l) |->
            ExpectedEntry(names[l[k][1]][l[k][2]], d[l[k][1]][l[k][2]])]

\* C6: process_and_record_data appends, for every leaf table off the
\* skip-list and in loop order, exactly one entry (name, C, H, N): N the
\* number of distinct rows, C and H the numbers of those labelled Critical
\* and High (0 when the label does not occur); nothing else is appended.
C6_OneEntryPerCountedTable ==
    [][pc = "record" => count' = count \o ExpectedEntries(new_file, data)]_vars

\* C6 witness: an entry for a table that lost a duplicate row, with one
\* Critical row and no High row.
C6_Witness ==
    /\ pc = "final"
    /\ input_rows > 1
    /\ \E k \in 1..Len(count) :
          count[k][2] = 1 /\ count[k][3] = 0 /\ count[k][4] = 1

\* C7: a zero-row table under a recognized file name is a no-op: once the
\* tally step of the call is over, and after the call has returned, no entry
\* has been appended to the count ledger, no row to the unknown-region ledger
\* and no report has been written.
C7_EmptyInputNoOp ==
    ( /\ nfiles = 1
      /\ input_rows = 0
      /\ filename \in RecognizedFiles
      /\ pc \in {"final", "idle"} ) =>
        /\ count = <<>>
        /\ \A k \in 1..Len(unknown_regions) :
              SlotTable(unknown_regions, k) = <<>>
        /\ DOMAIN files = {}

\* the eighteen names the dispatch accepts
RecognizedNames ==
    {"AMER - OS", "EMEA - OS", "APAC - OS",
     "AMER - Network", "EMEA - Network", "APAC - Network",
     "AMER - Applications", "EMEA - Applications", "APAC - Applications",
     "UC", "CGI - OS", "CGI - Applications", "DXC - OS", "DXC - Applications",
     "DXC", "Synology", "Externally Facing - HK VoIP", "DXC - DMZ"}

\* C8: a call whose declared file name is not exactly one of the recognized
\* names returns (None, None) and leaves the unknown-region ledger, the count
\* ledger, the Workstations accumulator and the written files unchanged.
C8_UnrecognizedFileLeavesLedgers ==
    [][ (pc = "idle" /\ nfiles' = nfiles + 1 /\ filename' \notin RecognizedNames)
          => /\ pc' = "idle"
             /\ ret' = "(None, None)"
             /\ UNCHANGED <<unknown_regions, count, all_workstations, files>>
      ]_vars

\* C8 witness: an unrecognized file is turned down after a file that filled
\* the ledgers and wrote a report.
C8_Witness ==
    /\ ret = "(None, None)"
    /\ filename \notin RecognizedNames
    /\ count # <<>>
    /\ DOMAIN files # {}

\* C9: update_cisa_kev_column_position on a table that has 'Vulnerability
\* CVSS Score' but lacks 'CisaKev' or 'Vulnerability CVSSv3 Severity' raises
\* nothing and returns the columns unchanged.
C9_MissingColumnSkipsStep ==
    ( /\ fn.op = "cisa_kev"
      /\ fn.pc = "positioned"
      /\ "Vulnerability CVSS Score" \in Elems(fn.before)
      /\ \/ "CisaKev" \notin Elems(fn.before)
         \/ "Vulnerability CVSSv3 Severity" \notin Elems(fn.before) ) =>
        /\ fn.raised = ""
        /\ fn.columns = fn.before

\* the chunks of the computed sheet list
Chunks == [k \in 1..Len(fn.sheet_list) |-> fn.sheet_list[k][2]]

\* C10: for max_sheet_rows >= 1 the chunks of split_dataframe are contiguous
\* and in row order, their concatenation is the table, each chunk is
\* non-empty and has at most max_sheet_rows rows, and there are
\* ceil(len/max_sheet_rows) of them (none for an empty table).
C10_ChunksPartitionTable ==
    (fn.op = "split_dataframe" /\ fn.pc = "done") =>
        LET n == Len(fn.data)
            m == fn.max_sheet_rows
        IN  /\ Flatten(Chunks) = fn.data
            /\ \A k \in 1..Len(Chunks) :
                  /\ Len(Chunks[k]) >= 1
                  /\ Len(Chunks[k]) <= m
                  /\ \A i \in 1..Len(Chunks[k]) :
                        Chunks[k][i] = fn.data[(k - 1) * m + i]
            /\ Len(Chunks) * m >= n
            /\ (Len(Chunks) - 1) * m < n

\* C10 witness: a table split into several chunks, the last one short.
C10_Witness ==
    /\ fn.op = "split_dataframe"
    /\ fn.pc = "done"
    /\ Len(fn.sheet_list) >= 2
    /\ Len(fn.sheet_list[Len(fn.sheet_list)][2]) < fn.max_sheet_rows


\* the sheet names of the computed sheet list
SheetNames == [k \in 1..Len(fn.sheet_list) |-> fn.sheet_list[k][1]]

\* the names the sheets are to carry, in order
DataNames ==
    <<"Data", "Data2", "Data3", "Data4", "Data5", "Data6", "Data7", "Data8",
      "Data9", "Data10", "Data11", "Data12">>

\* C11: split_dataframe names the first chunk "Data" and the k-th chunk
\* (k >= 2) "Data" followed by the decimal k; the names of one call are
\* pairwise distinct and none is "Data1".
C11_SheetNames ==
    (fn.op = "split_dataframe" /\ fn.pc = "done") =>
        /\ \A k \in 1..Len(SheetNames) : SheetNames[k] = DataNames[k]
        /\ \A j, k \in 1..Len(SheetNames) :
              SheetNames[j] = SheetNames[k] => j = k
        /\ \A k \in 1..Len(SheetNames) : SheetNames[k] # "Data1"

\* C11 witness: a call that produced at least three sheets.
C11_Witness ==
    /\ fn.op = "split_dataframe"
    /\ fn.pc = "done"
    /\ Len(fn.sheet_list) >= 3
    /\ SheetNames[3] = "Data3"

\* C12: score_to_severity (scores in hundredths) returns "None" for 0, "Low"
\* on [0.1, 3.9], "Medium" on [4.0, 6.9], "High" on [7.0, 8.9], "Critical" on
\* [9.0, 10.0] and the empty string for every other value: negative, above
\* 10, or in a gap between two bands (0.05, 3.95, 6.95, 8.95).
C12_SeverityBands ==
    (fn.op = "score_to_severity" /\ fn.pc = "done") =>
        LET s == fn.score
            r == fn.severity
        IN  /\ r \in {"None", "Low", "Medium", "High", "Critical", ""}
            /\ (r = "None") <=> (s = 0)
            /\ (r = "Low") <=> (s \in 10..390)
            /\ (r = "Medium") <=> (s \in 400..690)
            /\ (r = "High") <=> (s \in 700..890)
            /\ (r = "Critical") <=> (s \in 900..1000)
            /\ (s < 0 \/ s > 1000 \/ s \in {5, 395, 695, 895}) => r = ""

\* C12 witness: the score 3.95, between "Low" and "Medium", got no label.
C12_Witness ==
    /\ fn.op = "score_to_severity"
    /\ fn.pc = "done"
    /\ fn.score = 395
    /\ fn.severity = ""

\* C13: after merge_severity_scores each row's score is its v3 score when
\* that is not 0 and its v2 score otherwise ((5.0, 0.0) gives 5.0 and
\* (5.0, 8.0) gives 8.0), and the table has one score column: the v3 score
\* column is gone, the other columns keep their order.
C13_MergedScore ==
    (fn.op = "merge_severity_scores" /\ fn.pc = "done") =>
        /\ Len(fn.data.rows) = Len(fn.before.rows)
        /\ \A k \in 1..Len(fn.data.rows) :
              LET v2 == fn.before.rows[k].cvss
                  v3 == fn.before.rows[k].cvss3
                  m == fn.data.rows[k].cvss
              IN  /\ (v3 # 0) => m = v3
                  /\ (v3 = 0) => m = v2
                  /\ (v2 = 500 /\ v3 = 0) => m = 500
                  /\ (v2 = 500 /\ v3 = 800) => m = 800
                  /\ DOMAIN fn.data.rows[k] = {"cvss"}
        /\ "Vulnerability CVSSv3 Score" \notin Elems(fn.data.columns)
        /\ Cardinality({k \in 1..Len(fn.data.columns) :
               Contains(fn.data.columns[k], "Score")}) = 1
        /\ fn.data.columns =
              SelectSeq(fn.before.columns,
                        LAMBDA c : c # "Vulnerability CVSSv3 Score")

\* C13 witness: a table with the rows (5.0, 0.0) and (5.0, 8.0) was merged.
C13_Witness ==
    /\ fn.op = "merge_severity_scores"
    /\ fn.pc = "done"
    /\ fn.before.rows = <<[cvss |-> 500, cvss3 |-> 0],
                          [cvss |-> 500, cvss3 |-> 800]>>
    /\ fn.data.rows = <<[cvss |-> 500], [cvss |-> 800]>>

\* process_os has returned
OsDone == fn.op = "process_os" /\ fn.pc = "done"

\* C14: process_os puts a row in Workstations exactly when its OS name
\* contains "Microsoft Windows 1" and its OS version starts with "2", and in
\* Servers exactly when its OS name contains "Microsoft Windows Server" or
\* contains none of "Microsoft Windows", "ROUTER", "RT", "NETWORK":
\* ("Microsoft Windows 10 Enterprise", "21H2") is in Workstations, "Linux" is
\* in Servers, "Cisco IOS ROUTER" is in neither.
C14_OsPredicates ==
    OsDone =>
        /\ fn.new_file = <<"Workstations", "Servers">>
        /\ fn.out[1] =
              SelectSeq(fn.data,
                  LAMBDA r : /\ Contains(r.os, "Microsoft Windows 1")
                             /\ StartsWith(r.ver, "2"))
        /\ fn.out[2] =
              SelectSeq(fn.data,
                  LAMBDA r : \/ Contains(r.os, "Microsoft Windows Server")
                             \/ /\ ~ Contains(r.os, "Microsoft Windows")
                                /\ ~ Contains(r.os, "ROUTER")
                                /\ ~ Contains(r.os, "RT")
                                /\ ~ Contains(r.os, "NETWORK"))
        /\ \A k \in 1..Len(fn.data) :
              LET r == fn.data[k]
              IN  /\ (r.os = "Microsoft Windows 10 Enterprise"
                         /\ r.ver = "21H2") => r \in Elems(fn.out[1])
                  /\ (r.os = "Microsoft Windows 10 Enterprise"
                         /\ r.ver # "21H2") => r \notin Elems(fn.out[1])
                  /\ r.os = "Linux" => r \in Elems(fn.out[2])
                  /\ r.os = "Cisco IOS ROUTER" =>
                        r \notin Elems(fn.out[1]) \cup Elems(fn.out[2])

\* C14 witness: a table with a Windows 10 workstation and a router, the first
\* placed in Workstations only and the second nowhere.
C14_Witness ==
    /\ OsDone
    /\ fn.data = <<[os |-> "Microsoft Windows 10 Enterprise", ver |-> "21H2"],
                   [os |-> "Cisco IOS ROUTER", ver |-> "1809"]>>
    /\ Len(fn.out[1]) = 1
    /\ fn.out[2] = <<>>

\* C15: the two predicates of process_os are not mutually exclusive: a row
\* whose OS name contains "Microsoft Windows 1" and "Microsoft Windows Server"
\* and whose version starts with "2" is placed in Workstations and in Servers.
C15_RowInBothOutputs ==
    OsDone =>
        \A k \in 1..Len(fn.data) :
            ( /\ Contains(fn.data[k].os, "Microsoft Windows 1")
              /\ Contains(fn.data[k].os, "Microsoft Windows Server")
              /\ StartsWith(fn.data[k].ver, "2") ) =>
                /\ fn.data[k] \in Elems(fn.out[1])
                /\ fn.data[k] \in Elems(fn.out[2])

\* C15 witness: some row of the input is in both outputs.
C15_Witness ==
    /\ OsDone
    /\ Elems(fn.out[1]) \cap Elems(fn.out[2]) # {}

\* C16: process_region called with an exclude token returns two tables, named
\* "{region}-{category}" and "{excludeLabel}-{category}" in that order; for an
\* AMER file the second one is named "WHQ-{category}", in the legacy
\* VulnerabilityReportProcessor as in StandardReportProcessingSteps.  Here:
\* the legacy half.
C16_LegacyExcludedTableNamedWHQ ==
    ( /\ fn.op = "legacy_run_standard"
      /\ fn.last.called
      /\ Contains(fn.filename, "AMER") ) =>
        /\ Len(fn.last.out_data) = 2
        /\ fn.last.out_names =
              <<"AMER-" \o fn.last.category, "WHQ-" \o fn.last.category>>

\* the 1-based ledger slot the claim gives a category, 0 for any other
SlotOfCategory(category) ==
    IF category \in {"Workstations", "Servers"} THEN 1
    ELSE IF category = "Network" THEN 2
    ELSE IF category = "Applications" THEN 3
    ELSE 0

\* C17: process_region changes only the ledger slot of its category's group
\* (Workstations and Servers the first, Network the second, Applications the
\* third) and leaves the other two slots as they were; for any other
\* category it leaves the whole ledger as it was and still returns the
\* region tables.
C17_OnlyOwnSlotUpdated ==
    last_region.called =>
        LET k == SlotOfCategory(last_region.category)
        IN  /\ \A j \in 1..3 :
                  j # k => unknown_regions[j] = last_region.before[j]
            /\ Len(unknown_regions) = 3
            /\ k # 0 =>
                  /\ Len(unknown_regions[k]) = 2
                  /\ unknown_regions[k][1] = last_region.before[k][1]
            /\ k = 0 =>
                  /\ unknown_regions = last_region.before
                  /\ Len(last_region.out_names) =
                        (IF last_region.region_to_exclude # None
                           THEN 2 ELSE 1)
                  /\ last_region.out_names[1] =
                        last_region.region \o "-" \o last_region.category
                  /\ Len(last_region.out_data) = Len(last_region.out_names)

\* C17 witness: a call with the category "UC" on a ledger that already held a
\* table returned a non-empty region table and left the ledger alone.
C17_Witness ==
    /\ last_region.called
    /\ last_region.category = "UC"
    /\ Len(last_region.before[1]) = 2
    /\ last_region.out_data[1] # <<>>
    /\ unknown_regions = last_region.before

\* the prefix the report name is to have, the category table read top down
ExpectedPrefix(name) ==
    IF /\ Contains(name, "Applications")
       /\ ~ Contains(name, "CGI")
       /\ ~ Contains(name, "DXC") THEN "Applications - "
    ELSE IF Contains(name, "Workstations") THEN "Operating Systems - "
    ELSE IF Contains(name, "Servers") THEN "Operating Systems - "
    ELSE IF Contains(name, "CGI - Applications")
      THEN "CGI - Applications - Weekly Report"
    ELSE IF Contains(name, "Network") THEN "Network - "
    ELSE IF Contains(name, "UC") THEN "UC - Weekly Report"
    ELSE IF Contains(name, "CGI - OS") THEN "CGI - OS - Weekly Report"
    ELSE IF Contains(name, "DXC - OS") THEN "DXC - OS - Weekly Report"
    ELSE IF Contains(name, "DXC - Applications")
      THEN "DXC - Applications - Weekly Report"
    ELSE IF Contains(name, "DXC - DMZ") THEN "DXC - DMZ"
    ELSE IF Contains(name, "DXC") THEN "DXC - Weekly Report"
    ELSE IF Contains(name, "Synology") THEN "Synology - Weekly Report"
    ELSE IF Contains(name, "VoIP") THEN "Externally Facing - HK VoIP"
    ELSE ""

\* the suffix the report name is to have, the region table read top down
ExpectedSuffix(name) ==
    IF Contains(name, "AMER") THEN "AMER and WHQ"
    ELSE IF Contains(name, "WHQ") THEN "AMER and WHQ"
    ELSE IF Contains(name, "APAC") THEN "APAC and CN"
    ELSE IF Contains(name, "CN") THEN "APAC and CN"
    ELSE IF Contains(name, "EMEA") THEN "EMEA"
    ELSE ""

\* C18: the report name of process_final_file is a prefix followed by a
\* suffix, both from the first name of the first group only: the prefix is
\* "Applications - " when that name contains "Applications" and neither "CGI"
\* nor "DXC", otherwise the value of the first key of the category table that
\* is a substring of the name, or empty; the suffix is the value of the first
\* key of the region table that is a substring of the name, or empty.
C18_ReportName ==
    (fn.op = "report_filename" /\ fn.pc = "done") =>
        LET name == fn.new_file[1][1]
        IN  /\ fn.filename = ExpectedPrefix(name) \o ExpectedSuffix(name)
            /\ name = "Other" => fn.filename = ""
            /\ name = "DXC - OS" => fn.filename = "DXC - OS - Weekly Report"
            /\ name = "WHQ-Servers" =>
                  fn.filename = "Operating Systems - AMER and WHQ"

\* C18 witness: the name came from the first of two table names.
C18_Witness ==
    /\ fn.op = "report_filename"
    /\ fn.pc = "done"
    /\ fn.new_file = << <<"AMER-Applications", "CN-Network">> >>
    /\ fn.filename = "Applications - AMER and WHQ"

\* the steps of one file in the order they may follow one another
StepOrder ==
    {<<"idle", "region">>, <<"idle", "record">>, <<"region", "region">>,
     <<"region", "record">>, <<"record", "final">>, <<"final", "idle">>,
     <<"idle", "idle">>}

\* C19: within one file the category split is complete before any region
\* partition, every region partition (and ledger update) is complete before
\* the dedup and tally, and every count append is complete before the report
\* is written.
C19_StepsInOrder ==
    [][ /\ <<pc, pc'>> \in StepOrder
        /\ (pc' = "region" /\ pc = "idle") =>
              /\ idx' = 0
              /\ \A k \in 1..Len(new_file') :
                    new_file'[k] \in
                        {"Workstations", "Servers", "Network", "Applications"}
        /\ unknown_regions' # unknown_regions =>
              pc = "region" /\ count' = count /\ files' = files
        /\ (pc' = "record" /\ pc = "region") => idx' = Len(data')
        /\ count' # count =>
              pc = "record" /\ pc' = "final" /\ files' = files
        /\ files' # files =>
              pc = "final" /\ count' = count
        /\ pc = "final" => count' = count /\ unknown_regions' = unknown_regions
      ]_vars

\* C19 witness: the report of an OS file is about to be written after the
\* split, two region partitions and three count appends.
C19_Witness ==
    /\ pc = "final"
    /\ filename = "AMER - OS"
    /\ nfiles = 1
    /\ idx = 2
    /\ Len(unknown_regions[1]) = 2
    /\ Len(count) = 3
    /\ DOMAIN files = {}

\* C20: in a Standard run driven by manage_reports the flush
\* (process_all_workstations_unknownregions) happens after every source file
\* has been processed: once the flush has started there is no file of the
\* raw-data folder that process_reports has not handled.
C20_FlushAfterEveryFile ==
    (fn.op = "manage_reports" /\ fn.report_name = "Standard" /\ fn.flushed) =>
        fn.handled = 1..Len(fn.listing)

\* the three columns update_cisa_kev_column_position moves
KevColumns ==
    {"Vulnerability CVSS Score", "Vulnerability CVSSv3 Severity", "CisaKev"}

\* C24: update_cisa_kev_column_position on a table that has 'Vulnerability
\* CVSS Score', 'Vulnerability CVSSv3 Severity' and 'CisaKev' in any
\* positions returns the same set of columns, with 'Vulnerability CVSSv3
\* Severity' and 'CisaKev' right after 'Vulnerability CVSS Score' in that
\* order and the other columns in their former relative order.
C24_KevColumnsFollowScore ==
    ( /\ fn.op = "cisa_kev"
      /\ fn.pc = "positioned"
      /\ KevColumns \subseteq Elems(fn.before) ) =>
        /\ fn.raised = ""
        /\ Len(fn.columns) = Len(fn.before)
        /\ Elems(fn.columns) = Elems(fn.before)
        /\ \E p \in 1..(Len(fn.columns) - 2) :
              /\ fn.columns[p] = "Vulnerability CVSS Score"
              /\ fn.columns[p + 1] = "Vulnerability CVSSv3 Severity"
              /\ fn.columns[p + 2] = "CisaKev"
        /\ SelectSeq(fn.columns, LAMBDA c : c \notin KevColumns) =
              SelectSeq(fn.before, LAMBDA c : c \notin KevColumns)

\* C27: starting from [['OS'], ['Network'], ['Applications']], after any
\* sequence of process_region calls every slot of the unknown-region ledger
\* is [label] or [label, table], the three labels are as at the start, and a
\* slot's table only grows: its rows after a call are its rows before the
\* call followed, in order, by the call's rows that do not match the region
\* token.
C27_LedgerShapeAndGrowth ==
    /\ Len(unknown_regions) = 3
    /\ \A k \in 1..3 : Len(unknown_regions[k]) \in {1, 2}
    /\ unknown_regions[1][1] = "OS"
    /\ unknown_regions[2][1] = "Network"
    /\ unknown_regions[3][1] = "Applications"
    /\ last_region.called =>
          \A k \in 1..3 :
              SlotTable(unknown_regions, k) =
                  SlotTable(last_region.before, k) \o
                  (IF k = SlotOfCategory(last_region.category)
                     THEN SelectSeq(last_region.data,
                              LAMBDA r : ~ Contains(r.loc, last_region.region))
                     ELSE <<>>)

\* C27 witness: a call appended a row to a slot that already held a row.
C27_Witness ==
    /\ last_region.called
    /\ last_region.category = "Network"
    /\ Len(last_region.before[2]) = 2
    /\ Len(last_region.before[2][2]) = 1
    /\ Len(unknown_regions[2][2]) = 2
    /\ unknown_regions[2][2][1] # unknown_regions[2][2][2]

\* C30: in process_region with an exclude token the region table and the
\* excluded table share no row: a row whose asset location contains the
\* region token and the exclude token is in the excluded table only, and is
\* not added to the unknown-region ledger.
C30_RegionAndExcludedDisjoint ==
    (last_region.called /\ last_region.region_to_exclude # None) =>
        /\ Elems(last_region.out_data[1]) \cap
              Elems(last_region.out_data[2]) = {}
        /\ \A k \in 1..Len(last_region.data) :
              LET r == last_region.data[k]
              IN  ( /\ Contains(r.loc, last_region.region)
                    /\ Contains(r.loc, last_region.region_to_exclude) ) =>
                      /\ r \in Elems(last_region.out_data[2])
                      /\ r \notin Elems(last_region.out_data[1])
                      /\ r \notin Elems(Contribution)

\* C30 witness: a call whose input held a row with both tokens, which went
\* to the excluded table, and a row the call added to the ledger.
C30_Witness ==
    /\ last_region.called
    /\ last_region.region_to_exclude = "WHQ"
    /\ Len(last_region.data) >= 2
    /\ last_region.out_data[1] = <<>>
    /\ Len(last_region.out_data[2]) = 1
    /\ Contains(last_region.out_data[2][1].loc, "AMER")
    /\ Len(Contribution) = 1

\* the files of the listing that loaded to zero rows and have been looked at
EmptyFilesSeen ==
    {k \in 1..Len(fn.outcome) : fn.listing[k] = "no rows"}

\* C25: in VulnerabilityReportProcessor a file that loads to zero rows stops
\* the run only when merge_files_dict and merge_data_folder are both set:
\* then check_data_status returns QUIT, process_reports looks at no later
\* file and merge_split_files_to_master_excel_file writes no master file;
\* otherwise it returns SKIP, only that file is skipped and every later file
\* is still looked at.
C25_QuitOnlyWhenMergeConfigured ==
    fn.op = "manage_reports" =>
        /\ \A k \in EmptyFilesSeen :
              IF fn.merge_files_dict /\ fn.merge_data_folder
                THEN /\ fn.outcome[k] = "QUIT"
                     /\ Len(fn.outcome) = k
                     /\ fn.pc \in {"processed", "merge", "end"}
                     /\ ~ fn.merged
                ELSE /\ fn.outcome[k] = "SKIP"
                     /\ fn.pc \in {"processed", "merge", "end"} =>
                           Len(fn.outcome) = Len(fn.listing)
        /\ \A k \in 1..Len(fn.outcome) :
              fn.outcome[k] \in {"QUIT", "SKIP"} => fn.listing[k] = "no rows"

\* C25 witness: with only merge_data_folder set, a file without rows was
\* skipped and the file after it was processed.
C25_Witness ==
    /\ fn.op = "manage_reports"
    /\ fn.pc = "end"
    /\ ~ fn.merge_files_dict
    /\ fn.merge_data_folder
    /\ Len(fn.outcome) >= 2
    /\ fn.outcome[1] = "SKIP"
    /\ fn.outcome[2] = "processed"

\* the chunks split_dataframe made of the written table
PublishedSheets == split_dataframe(fn.data, fn.max_sheet_rows)

\* C22: after a successful publish_data_into_excel_file_with_sheets every
\* sheet holds the header in its first row and below it each data row of its
\* table in a row of its own, in the table's order, whatever the table length
\* and chunk_size: no row of one chunk is overwritten by the next chunk.
C22_EveryRowWritten ==
    (fn.op = "publish" /\ fn.pc = "done" /\ fn.file.state = "workbook") =>
        /\ Len(fn.file.sheets) = Len(PublishedSheets)
        /\ \A k \in 1..Len(PublishedSheets) :
              LET cells == fn.file.sheets[k][2]
                  t == PublishedSheets[k][2]
              IN  /\ fn.file.sheets[k][1] = PublishedSheets[k][1]
                  /\ DOMAIN cells = 0..Len(t)
                  /\ cells[0] = Header
                  /\ \A r \in 1..Len(t) : cells[r] = t[r]

\* C21: a spreadsheet write failure is contained: whatever the sink raises
\* inside process_final_file or publish_data_into_excel_file_with_sheets, no
\* exception leaves the function.
C21_WriteFailureContained ==
    (fn.op \in {"publish", "process_final_file"} /\ fn.pc = "done") =>
        fn.raised = ""

\* C21 witness: the outer writer of process_final_file failed to save after
\* a table had been written, and the function returned.
C21_Witness ==
    /\ fn.op = "process_final_file"
    /\ fn.pc = "done"
    /\ fn.plan.open = ""
    /\ fn.plan.close = "OSError"
    /\ fn.plan.to_excel = <<"", "OSError">>
    /\ Len(fn.data[1][1]) = 2
    /\ Len(fn.data[1][2]) = 1
    /\ fn.file = Damaged
    /\ fn.raised = ""

\* the tables of process_final_file whose to_excel raised ValueError while
\* everything else of the sink worked
FallbackTables ==
    IF /\ fn.plan.open = ""
       /\ fn.plan.close = ""
       /\ fn.plan.publish = ""
       /\ \A k \in 1..2 : fn.plan.to_excel[k] # "OSError"
      THEN {k \in 1..2 : /\ fn.plan.to_excel[k] = "ValueError"
                         /\ Len(fn.data[1][k]) > 0}
      ELSE {}

\* C23: when writing a table as one sheet fails with ValueError,
\* process_final_file splits it into row-bounded sheets and persists them:
\* after it returns, the report file holds every row of that table in the
\* sheets Data, Data2, ...
C23_FallbackPersisted ==
    (fn.op = "process_final_file" /\ fn.pc = "done") =>
        \A k \in FallbackTables :
            /\ fn.file.state = "workbook"
            /\ \A i \in 1..Len(fn.data[1][k]) :
                  \E s \in 1..Len(fn.file.sheets) :
                      /\ StartsWith(fn.file.sheets[s][1], "Data")
                      /\ \E r \in DOMAIN fn.file.sheets[s][2] :
                            fn.file.sheets[s][2][r] = fn.data[1][k][i]

\* q is p with zero or more entries added at its end
IsPrefix(p, q) == Len(p) <= Len(q) /\ SubSeq(q, 1, Len(p)) = p

\* C26: the count ledger is append-only: every step of a run, be it part of
\* run_standard_report_process_steps or a flush by
\* process_all_workstations_unknownregions, leaves the entries already in
\* count in place and in order, and only adds entries at the end.
C26_CountAppendOnly == [][IsPrefix(count, count')]_vars

\* the path of the tally file written by the flush
TotalCountPath == "Total Count" \o today_date_str \o ".xlsx"

\* C26 witness: a flush has written the tally file sorted by File, in an
\* order other than the ledger's, and the ledger has its entries in their
\* order of entry.
C26_Witness ==
    /\ pc = "idle"
    /\ Len(count) >= 2
    /\ TotalCountPath \in DOMAIN files
    /\ files[TotalCountPath] = << <<"Data", sort_values_File(count)>> >>
    /\ sort_values_File(count) # count

\* C29: the report name is injective over the recognized file names: two
\* different recognized files get different report names, and no report name
\* is the name of a file written by the flush.
C29_ReportNamesDistinct ==
    (fn.op = "report_of_file" /\ fn.pc = "done") =>
        /\ fn.filenames[1] # fn.filenames[2] => fn.reports[1] # fn.reports[2]
        /\ \A k \in 1..2 :
              fn.reports[k] \notin
                  flush_filenames(<< <<"OS">>, <<"Network">>,
                                     <<"Applications">> >>)

\* C29 witness: two operating-system files of different regions got names
\* that differ in the region label only.
C29_Witness ==
    /\ fn.op = "report_of_file"
    /\ fn.pc = "done"
    /\ fn.filenames = <<"EMEA - OS", "AMER - OS">>
    /\ fn.reports = <<"Operating Systems - EMEA",
                      "Operating Systems - AMER and WHQ">>

\* C28: the calls of run_standard_report_process_steps that omit count share
\* one default list: the ledger such a call returns holds the entries of all
\* earlier calls that omitted count, followed by its own, and nothing of the
\* calls that passed a list.
C28_DefaultLedgerShared ==
    (fn.op = "default_count" /\ fn.last = "omitted" /\ ~ fn.returned.none) =>
        fn.returned.count = fn.omitted_entries

\* C28 witness: a second call omitting count returned a ledger that starts
\* with the entry of the first such call, made for another file.
C28_Witness ==
    /\ fn.op = "default_count"
    /\ fn.omitted = 2
    /\ fn.last = "omitted"
    /\ ~ fn.returned.none
    /\ Len(fn.returned.count) = 4
    /\ fn.returned.count[1][1] = "EMEA-Network"
    /\ fn.returned.count[2][1] = "AMER-Workstations"
    /\ fn.callers_list = <<>>

====
